---------------------------- MODULE Spec2Model ----------------------------
(***************************************************************************)
(* A model of the Mapbox vector style set of WhirlyGlobe                   *)
(* (MapboxVectorStyleSetC.cpp, src/unnamed/part_000): the style layer      *)
(* index built by MapboxVectorStyleSetImpl::parse, its query methods, and  *)
(* the zoom stop functions (MaplyVectorFunctionStops).                     *)
(***************************************************************************)
EXTENDS Integers, Sequences, FiniteSets, TLC

VARIABLES
    styleDict,          \* the style document handed to parse (<<>> before parse)
    baseDrawPriority,   \* tileStyleSettings->baseDrawPriority
    parsed,             \* parse() has returned
    layers,             \* MapboxVectorStyleSetImpl::layers
    layersByName,       \* MapboxVectorStyleSetImpl::layersByName
    layersByUUID,       \* MapboxVectorStyleSetImpl::layersByUUID
    layersBySource,     \* MapboxVectorStyleSetImpl::layersBySource
    currentID,          \* MapboxVectorStyleSetImpl::currentID
    ret,                \* what the last call returned: [op, val]
    fstops,             \* a MaplyVectorFunctionStops object: [base, stops]
    zret,               \* what the last stop-function evaluation returned
    calls,              \* per worker thread: the query call it is inside
    textField,          \* the template string handed to MapboxRegexField::parse
    featureAttrs,       \* the attributes of a feature handed to build
    field,              \* a MapboxRegexField: [chunks, valid]
    text,               \* what the last build returned
    colorArgs,          \* the arguments of a parseColor call
    colorRet,           \* what the last parseColor call returned
    styleEntry,         \* the dictionary a property resolver looks its name up in
    trans,              \* what the last property resolver returned
    resolveArgs,        \* the arguments of a resolveColor call
    resolveRet          \* what the last resolveColor call returned

setVars  == <<styleDict, baseDrawPriority, parsed, layers, layersByName,
              layersByUUID, layersBySource, currentID, ret>>
stopVars == <<fstops, zret>>
textVars == <<textField, featureAttrs, field, text>>
colorVars == <<colorArgs, colorRet>>
transVars == <<styleEntry, trans>>
resolveVars == <<resolveArgs, resolveRet>>
leafVars == <<textVars, colorVars, transVars, resolveVars>>
vars     == <<styleDict, baseDrawPriority, parsed, layers, layersByName,
              layersByUUID, layersBySource, currentID, ret, fstops, zret, calls,
              textField, featureAttrs, field, text, colorArgs, colorRet, styleEntry, trans,
              resolveArgs, resolveRet>>

-----------------------------------------------------------------------------
(* Bounds of the model *)

\* the longest layers array of a style document
MaxLayers == 3

\* the most stops of a stop function
MaxStops == 3

\* stops sit at the zoom levels 0, 5, ..., 5 * MaxZoomIdx
MaxZoomIdx == 2

-----------------------------------------------------------------------------
(* Style documents *)

strBackground == "background"

\* layer names ("id") a document uses
Names == {strBackground, "roads"}

\* "source-layer" values; "" is a layer without a source layer
SourceLayers == {"", "water", "land"}

\* a layer without a filter
NoFilter == "nofilter"

\* the filters a layer may carry: opaque predicates on (attrs, tileID)
Filters == {NoFilter, "class=road&z<1"}

\* feature attribute sets (told apart by their class) and tile ids (by level)
Attrs == {"road", "river"}
TileIDs == {0, 1}

\* layer->filter->testFeature(attrs, tileID) of the one filter of the model
testFeature(filter, attrs, tileID) ==
    filter = "class=road&z<1" /\ attrs = "road" /\ tileID < 1

\* entries of the layers array that yield no layer: an entry that is not a
\* dictionary, a dictionary of an unsupported type (no layer is created) and
\* a dictionary of a known type whose own parse fails (the layer had its id)
DeadKinds == {"notDict", "unsupported", "malformed"}

\* the layer variants the model constructs
Variants == {"background", "fill"}

\* visible / representation pairs of a layer
Shown == {<<TRUE, "">>, <<FALSE, "">>, <<FALSE, "selected">>}

LayerEntry(kind, id, src, flt, vis, rep) ==
    [kind |-> kind, id |-> id, sourceLayer |-> src, filter |-> flt,
     visible |-> vis, representation |-> rep]

\* the entries a layers array is made of: the dead ones; background layers
\* (no source layer, no filter) of either name; fill layers of source layer
\* "water" with and without a filter, shown or not; a fill layer of source
\* layer "land"; and a fill layer that takes the name "background"
Entries ==
    {LayerEntry(k, "", "", NoFilter, FALSE, "") : k \in DeadKinds}
    \cup {LayerEntry("background", n, "", NoFilter, TRUE, "") : n \in Names}
    \cup {LayerEntry("fill", "roads", "water", f, s[1], s[2]) :
             f \in Filters, s \in Shown}
    \cup {LayerEntry("fill", "roads", "land", NoFilter, TRUE, ""),
          LayerEntry("fill", strBackground, "land", NoFilter, FALSE, "")}

RECURSIVE SeqsUpTo(_, _)
SeqsUpTo(S, n) ==
    IF n = 0 THEN {<<>>}
    ELSE LET shorter == SeqsUpTo(S, n - 1)
         IN  shorter \cup {Append(q, e) : q \in {p \in shorter : Len(p) = n - 1}, e \in S}

\* the documents parse is given: every layers array of up to MaxLayers entries
Documents == SeqsUpTo(Entries, MaxLayers)

\* tileStyleSettings->baseDrawPriority of the style sets of the model
BasePriorities == {100}

-----------------------------------------------------------------------------
(* Style layers *)

\* a null MapboxVectorStyleLayerRef
NoLayer ==
    [ident |-> "", uuid |-> -1, variant |-> "null", sourceLayer |-> "",
     filter |-> NoFilter, visible |-> FALSE, representation |-> "",
     drawPriority |-> -1]

\* generateID without the increment: return currentID
generateID_noIncrement(id) == [value |-> id, currentID |-> id]

\* MapboxVectorStyleSetImpl::generateID: return currentID++
generateID(id) == [value |-> id, currentID |-> id + 1]

\* MapboxVectorStyleLayer::VectorStyleLayer: the layer built from a dictionary
\* entry with the draw priority it is handed, or null; a layer takes its uuid
\* from generateID.  Returns the layer and the id counter afterwards.
VectorStyleLayer(entry, drawPriority, id) ==
    IF entry.kind = "unsupported"
    THEN [layer |-> NoLayer, currentID |-> id]
    ELSE IF entry.kind = "malformed"
    THEN [layer |-> NoLayer, currentID |-> generateID(id).currentID]
    ELSE [layer |-> [ident |-> entry.id, uuid |-> generateID(id).value,
                     variant |-> entry.kind, sourceLayer |-> entry.sourceLayer,
                     filter |-> entry.filter, visible |-> entry.visible,
                     representation |-> entry.representation,
                     drawPriority |-> drawPriority],
          currentID |-> generateID(id).currentID]

\* an empty unordered_map
EmptyMap == [k \in {} |-> NoLayer]

\* std::unordered_map::operator[] used as an lvalue: m[k] = v
MapAssign(m, k, v) == [x \in (DOMAIN m) \cup {k} |-> IF x = k THEN v ELSE m[x]]

\* The multimap by source layer is the sequence of its <<key, layer>> pairs in
\* iteration order.  insert() puts a pair behind the pairs of an equal key
\* that are already there, so pairs of one key keep their insertion order.
MultimapInsert(mm, k, v) == Append(mm, <<k, v>>)

\* std::unordered_multimap::equal_range: the pairs of key k, in iteration order
equal_range(mm, k) == SelectSeq(mm, LAMBDA p : p[1] = k)


-----------------------------------------------------------------------------
(* MapboxVectorStyleSetImpl::parse *)

\* the style set as its constructor leaves it
EmptySet ==
    [layers |-> <<>>, layersByName |-> EmptyMap, layersByUUID |-> EmptyMap,
     layersBySource |-> <<>>, currentID |-> 0]

\* the buckets filled with insert() for the name index: an earlier layer of
\* the same name stays
addLayer_firstNameWins(st, layer) ==
    [st EXCEPT
       !.layersByName   = IF layer.ident \in DOMAIN st.layersByName
                          THEN st.layersByName
                          ELSE MapAssign(st.layersByName, layer.ident, layer),
       !.layersByUUID   = MapAssign(st.layersByUUID, layer.uuid, layer),
       !.layersBySource = IF layer.sourceLayer # ""
                          THEN MultimapInsert(st.layersBySource, layer.sourceLayer, layer)
                          ELSE st.layersBySource,
       !.layers         = Append(st.layers, layer)]

\* the "sort into various buckets" block of parse for a layer that was built
addLayer(st, layer) ==
    [st EXCEPT
       !.layersByName   = MapAssign(st.layersByName, layer.ident, layer),
       !.layersByUUID   = MapAssign(st.layersByUUID, layer.uuid, layer),
       !.layersBySource = IF layer.sourceLayer # ""
                          THEN MultimapInsert(st.layersBySource, layer.sourceLayer, layer)
                          ELSE st.layersBySource,
       !.layers         = Append(st.layers, layer)]

\* the value of `which` once the body of the loop has handled an entry: the
\* `continue` after a failed construction skips the which++ that ends the body
nextWhich(which, isDict, built) ==
    IF isDict /\ ~built THEN which ELSE which + 1

\* the loop with a `break` where the code has its `continue`: the first
\* failed construction ends the loop
RECURSIVE parseLayers_breakOnFailure(_, _, _, _, _)
parseLayers_breakOnFailure(st, layerStyles, i, which, base) ==
    IF i > Len(layerStyles) THEN st
    ELSE
      LET layerStyle == layerStyles[i]
          isDict     == layerStyle.kind # "notDict"
          made       == VectorStyleLayer(layerStyle, 1 * which + base, st.currentID)
          built      == isDict /\ made.layer # NoLayer
          st1        == IF isDict THEN [st EXCEPT !.currentID = made.currentID] ELSE st
          st2        == IF built THEN addLayer(st1, made.layer) ELSE st1
      IN  IF isDict /\ ~built THEN st1
          ELSE parseLayers_breakOnFailure(st2, layerStyles, i + 1,
                                          nextWhich(which, isDict, built), base)

\* the loop of parse over layerStyles, from entry i on, with counter `which`
RECURSIVE parseLayers(_, _, _, _, _)
parseLayers(st, layerStyles, i, which, base) ==
    IF i > Len(layerStyles) THEN st
    ELSE
      LET layerStyle == layerStyles[i]
          isDict     == layerStyle.kind # "notDict"
          made       == VectorStyleLayer(layerStyle, 1 * which + base, st.currentID)
          built      == isDict /\ made.layer # NoLayer
          st1        == IF isDict THEN [st EXCEPT !.currentID = made.currentID] ELSE st
          st2        == IF built THEN addLayer(st1, made.layer) ELSE st1
      IN  parseLayers(st2, layerStyles, i + 1, nextWhich(which, isDict, built), base)

\* parse(styleDict): the style set afterwards
parse(st, layerStyles, base) == parseLayers(st, layerStyles, 1, 0, base)

-----------------------------------------------------------------------------
(* The query methods.  Each returns the pair of its result and of the index *)
(* it went through as the call leaves it.                                  *)

\* getLayer through layersByName[inName]: a miss inserts a null layer
getLayer_subscript(byName, inName) ==
    [val |-> IF inName \in DOMAIN byName THEN byName[inName] ELSE NoLayer,
     map |-> IF inName \in DOMAIN byName THEN byName
             ELSE MapAssign(byName, inName, NoLayer)]

\* getLayer: layersByName.find(inName)
getLayer(byName, inName) ==
    [val |-> IF inName \in DOMAIN byName THEN byName[inName] ELSE NoLayer,
     map |-> byName]

\* backgroundStyle without the dynamic cast
backgroundStyle_noCast(byName) ==
    [val |-> IF strBackground \in DOMAIN byName
             THEN byName[strBackground] ELSE NoLayer,
     map |-> byName]

\* backgroundStyle: find(strBackground), then the dynamic cast to the
\* background variant
backgroundStyle(byName) ==
    [val |-> IF strBackground \in DOMAIN byName
                /\ byName[strBackground].variant = "background"
             THEN byName[strBackground] ELSE NoLayer,
     map |-> byName]

\* whether stylesForFeature keeps a layer of the range
passes(layer, attrs, tileID) ==
    layer.filter = NoFilter \/ testFeature(layer.filter, attrs, tileID)

\* stylesForFeature that keeps a layer only when it has no filter
stylesForFeature_filterDropped(bySource, attrs, tileID, layerName) ==
    LET range == equal_range(bySource, layerName)
        kept  == SelectSeq(range, LAMBDA p : p[2].filter = NoFilter)
    IN  [val |-> [i \in 1..Len(kept) |-> kept[i][2]], map |-> bySource]

\* stylesForFeature: the layers of equal_range(layerName) without a filter or
\* whose filter accepts the feature, pushed back in iteration order
stylesForFeature(bySource, attrs, tileID, layerName) ==
    LET range == equal_range(bySource, layerName)
        kept  == SelectSeq(range, LAMBDA p : passes(p[2], attrs, tileID))
    IN  [val |-> [i \in 1..Len(kept) |-> kept[i][2]], map |-> bySource]

\* layerShouldDisplay that decides on the first layer of the range
layerShouldDisplay_firstLayer(bySource, layerName, tileID) ==
    LET range == equal_range(bySource, layerName)
    IN  [val |-> /\ Len(range) > 0
                 /\ (range[1][2].visible \/ range[1][2].representation # ""),
         map |-> bySource]

\* layerShouldDisplay that looks at `visible` alone
layerShouldDisplay_visibleOnly(bySource, layerName, tileID) ==
    LET range == equal_range(bySource, layerName)
    IN  [val |-> \E i \in 1..Len(range) : range[i][2].visible,
         map |-> bySource]

\* layerShouldDisplay: some layer of equal_range(layerName) is visible or has
\* a representation; tileID is not read
layerShouldDisplay(bySource, layerName, tileID) ==
    LET range == equal_range(bySource, layerName)
    IN  [val |-> \E i \in 1..Len(range) :
                    range[i][2].visible \/ range[i][2].representation # "",
         map |-> bySource]

\* styleForUUID: layersByUUID.find(uuid)
styleForUUID(byUUID, uuid) ==
    [val |-> IF uuid \in DOMAIN byUUID THEN byUUID[uuid] ELSE NoLayer,
     map |-> byUUID]

\* allStyles: a copy of the layer list
allStyles(ls) == [val |-> ls, map |-> ls]

-----------------------------------------------------------------------------
(* The style set as a state machine *)

NoRet == [op |-> "none", val |-> <<>>]

\* the values of the variables the style set does not use
IdleStops == [base |-> 1, kind |-> "num", stops |-> <<>>]
IdleZret  == [fn |-> "none", zoom |-> 0, val |-> <<>>]
IdleCalls == <<>>

\* no template, color string or property entry in use
IdleText == [str |-> <<>>, attrs |-> <<>>, field |-> [chunks |-> <<>>, valid |-> FALSE],
             text |-> [called |-> FALSE, str |-> <<>>]]
IdleColor == [args |-> <<>>, ret |-> [ref |-> "none", rgba |-> <<>>]]
IdleTrans == [styleEntry |-> <<>>, trans |-> [fn |-> "none"]]
IdleResolve == [args |-> <<>>, ret |-> [ref |-> "none", rgba |-> <<>>]]
IdleLeaves ==
    /\ textField = IdleText.str
    /\ featureAttrs = IdleText.attrs
    /\ field = IdleText.field
    /\ text = IdleText.text
    /\ colorArgs = IdleColor.args
    /\ colorRet = IdleColor.ret
    /\ styleEntry = IdleTrans.styleEntry
    /\ trans = IdleTrans.trans
    /\ resolveArgs = IdleResolve.args
    /\ resolveRet = IdleResolve.ret

Init ==
    /\ styleDict = <<>>
    /\ baseDrawPriority \in BasePriorities
    /\ parsed = FALSE
    /\ layers = EmptySet.layers
    /\ layersByName = EmptySet.layersByName
    /\ layersByUUID = EmptySet.layersByUUID
    /\ layersBySource = EmptySet.layersBySource
    /\ currentID = EmptySet.currentID
    /\ ret = NoRet
    /\ fstops = IdleStops
    /\ zret = IdleZret
    /\ calls = IdleCalls
    /\ IdleLeaves

\* the style set as a record
ThisSet ==
    [layers |-> layers, layersByName |-> layersByName, layersByUUID |-> layersByUUID,
     layersBySource |-> layersBySource, currentID |-> currentID]

\* parse(inst, styleDict): once, before any query (spec section 5)
Parse ==
    /\ ~parsed
    /\ \E doc \in Documents :
         LET st == parse(ThisSet, doc, baseDrawPriority)
         IN  /\ styleDict' = doc
             /\ layers' = st.layers
             /\ layersByName' = st.layersByName
             /\ layersByUUID' = st.layersByUUID
             /\ layersBySource' = st.layersBySource
             /\ currentID' = st.currentID
    /\ parsed' = TRUE
    /\ ret' = [op |-> "parse", val |-> TRUE]
    /\ UNCHANGED <<leafVars, baseDrawPriority, fstops, zret, calls>>

GetLayer ==
    /\ parsed
    /\ \E inName \in Names \cup {"missing"} :
         LET r == getLayer(layersByName, inName)
         IN  /\ ret' = [op |-> "getLayer", val |-> r.val]
             /\ layersByName' = r.map
    /\ UNCHANGED <<leafVars, styleDict, baseDrawPriority, parsed, layers, layersByUUID,
                   layersBySource, currentID, fstops, zret, calls>>

BackgroundStyle ==
    /\ parsed
    /\ LET r == backgroundStyle(layersByName)
       IN  /\ ret' = [op |-> "backgroundStyle", val |-> r.val]
           /\ layersByName' = r.map
    /\ UNCHANGED <<leafVars, styleDict, baseDrawPriority, parsed, layers, layersByUUID,
                   layersBySource, currentID, fstops, zret, calls>>

StylesForFeature ==
    /\ parsed
    /\ \E attrs \in Attrs, tileID \in TileIDs, layerName \in SourceLayers \cup {"missing"} :
         LET r == stylesForFeature(layersBySource, attrs, tileID, layerName)
         IN  /\ ret' = [op |-> "stylesForFeature", val |-> r.val]
             /\ layersBySource' = r.map
    /\ UNCHANGED <<leafVars, styleDict, baseDrawPriority, parsed, layers, layersByName,
                   layersByUUID, currentID, fstops, zret, calls>>

LayerShouldDisplay ==
    /\ parsed
    /\ \E tileID \in TileIDs, layerName \in SourceLayers \cup {"missing"} :
         LET r == layerShouldDisplay(layersBySource, layerName, tileID)
         IN  /\ ret' = [op |-> "layerShouldDisplay", val |-> r.val]
             /\ layersBySource' = r.map
    /\ UNCHANGED <<leafVars, styleDict, baseDrawPriority, parsed, layers, layersByName,
                   layersByUUID, currentID, fstops, zret, calls>>

StyleForUUID ==
    /\ parsed
    /\ \E uuid \in 0..MaxLayers :
         LET r == styleForUUID(layersByUUID, uuid)
         IN  /\ ret' = [op |-> "styleForUUID", val |-> r.val]
             /\ layersByUUID' = r.map
    /\ UNCHANGED <<leafVars, styleDict, baseDrawPriority, parsed, layers, layersByName,
                   layersBySource, currentID, fstops, zret, calls>>

AllStyles ==
    /\ parsed
    /\ LET r == allStyles(layers)
       IN  /\ ret' = [op |-> "allStyles", val |-> r.val]
           /\ layers' = r.map
    /\ UNCHANGED <<leafVars, styleDict, baseDrawPriority, parsed, layersByName, layersByUUID,
                   layersBySource, currentID, fstops, zret, calls>>

Next ==
    \/ Parse
    \/ GetLayer
    \/ BackgroundStyle
    \/ StylesForFeature
    \/ LayerShouldDisplay
    \/ StyleForUUID
    \/ AllStyles

Spec == Init /\ [][Next]_vars


-----------------------------------------------------------------------------
(* Properties of the style layer index *)

\* an entry of the layers array that parse turns into a layer
Built(entry) == entry.kind \in Variants

\* the document's view of a layer: the entry it was built from
EntryOf(layer) ==
    LayerEntry(layer.variant, layer.ident, layer.sourceLayer, layer.filter,
               layer.visible, layer.representation)

EntriesOf(ls) == [i \in 1..Len(ls) |-> EntryOf(ls[i])]

\* the source-layer names a query is made with; "" is no source layer
QueryNames == (SourceLayers \ {""}) \cup {"missing"}

\* the entries of the document that a feature of source layer S selects
SelectedEntries(doc, attrs, tileID, S) ==
    SelectSeq(doc, LAMBDA e :
        /\ Built(e)
        /\ e.sourceLayer = S
        /\ (e.filter = NoFilter \/ testFeature(e.filter, attrs, tileID)))

C2_QueriesChangeNothing ==
    [][parsed =>
         /\ layers' = layers
         /\ layersByName' = layersByName
         /\ layersByUUID' = layersByUUID
         /\ layersBySource' = layersBySource
         /\ \A attrs \in Attrs, tileID \in TileIDs, S \in QueryNames \cup {""} :
              stylesForFeature(layersBySource', attrs, tileID, S).val
                = stylesForFeature(layersBySource, attrs, tileID, S).val]_vars

\* C2 witness: getLayer has missed on a style set that holds layers
C2_Witness ==
    /\ parsed
    /\ ret.op = "getLayer"
    /\ ret.val = NoLayer
    /\ Len(layersBySource) > 0

\* C4: layerShouldDisplay(S, tileID) is true exactly when the document has a
\* built layer of source layer S that is visible or has a representation,
\* whatever tileID and the filters are; it is false for a name without layers
\* and for the empty name.
C4_LayerShouldDisplay ==
    parsed =>
      \A tileID \in TileIDs :
        /\ \A S \in QueryNames :
             layerShouldDisplay(layersBySource, S, tileID).val
               = (\E i \in 1..Len(styleDict) :
                     /\ Built(styleDict[i])
                     /\ styleDict[i].sourceLayer = S
                     /\ (styleDict[i].visible \/ styleDict[i].representation # ""))
        /\ ~layerShouldDisplay(layersBySource, "", tileID).val
        /\ ~layerShouldDisplay(layersBySource, "missing", tileID).val

\* C4 witness: true was returned for a source layer whose only shown layer is
\* invisible, has a representation and carries a filter
C4_Witness ==
    /\ parsed
    /\ ret.op = "layerShouldDisplay"
    /\ ret.val = TRUE
    /\ Len(layers) > 0
    /\ \A i \in 1..Len(layers) :
          /\ ~layers[i].visible
          /\ layers[i].filter # NoFilter

\* the last layer of the list with the given name, or no layer
LastNamed(ls, name) ==
    LET at == {i \in 1..Len(ls) : ls[i].ident = name}
    IN  IF at = {} THEN NoLayer
        ELSE ls[CHOOSE i \in at : \A j \in at : j <= i]

\* the indices of the entries of the document that parse builds, ascending
BuiltPositions(doc) ==
    SelectSeq([i \in 1..Len(doc) |-> i], LAMBDA i : Built(doc[i]))

\* the layer list holds the built entries of the document, in their order
LayersFollowDocument ==
    EntriesOf(layers) = SelectSeq(styleDict, Built)

\* C5 as stated: getLayer("background") and backgroundStyle() agree when a
\* layer named "background" of the background variant exists, and both return
\* no layer in every other case.
C5_AsStated ==
    parsed =>
      LET g == getLayer(layersByName, strBackground).val
          b == backgroundStyle(layersByName).val
      IN  IF \E i \in 1..Len(layers) :
                layers[i].ident = strBackground /\ layers[i].variant = "background"
          THEN g = b /\ g # NoLayer
          ELSE g = NoLayer /\ b = NoLayer

\* C5 amended: with L the layer indexed under "background" (the last one built
\* with that name): both return L when L is of the background variant; both
\* return no layer when there is no L; otherwise backgroundStyle() returns no
\* layer and getLayer returns L.
C5_Amended ==
    parsed =>
      LET g == getLayer(layersByName, strBackground).val
          b == backgroundStyle(layersByName).val
          L == LastNamed(layers, strBackground)
      IN  /\ LayersFollowDocument
          /\ g = L
          /\ b = IF L.variant = "background" THEN L ELSE NoLayer

\* C5 witness: backgroundStyle() returned no layer although the document has a
\* background layer named "background": a later fill layer took the name
C5_Witness ==
    /\ parsed
    /\ ret.op = "backgroundStyle"
    /\ ret.val = NoLayer
    /\ Len(layers) = 2
    /\ layers[1].ident = strBackground /\ layers[1].variant = "background"
    /\ layers[2].ident = strBackground /\ layers[2].variant = "fill"

\* C6: getLayer(name) is the last layer, in document order, that was built
\* with that name, and no layer for a name that no built layer has.
C6_GetLayerLastWins ==
    parsed =>
      /\ LayersFollowDocument
      /\ \A name \in Names \cup {"missing"} :
           getLayer(layersByName, name).val = LastNamed(layers, name)
      /\ getLayer(layersByName, "missing").val = NoLayer

\* C6 witness: getLayer returned the second of two layers of one name
C6_Witness ==
    /\ parsed
    /\ ret.op = "getLayer"
    /\ Len(layers) = 2
    /\ layers[1].ident = layers[2].ident
    /\ ret.val = layers[2]
    /\ EntryOf(layers[1]) # EntryOf(layers[2])

\* C7: the layers of the list have pairwise different uuids, the uuid index
\* has one entry for each of them, and styleForUUID(u) is the layer of uuid u
\* or no layer.
C7_UUIDsUnique ==
    parsed =>
      /\ \A i, j \in 1..Len(layers) : i # j => layers[i].uuid # layers[j].uuid
      /\ DOMAIN layersByUUID = {layers[i].uuid : i \in 1..Len(layers)}
      /\ Cardinality(DOMAIN layersByUUID) = Len(layers)
      /\ \A i \in 1..Len(layers) : layersByUUID[layers[i].uuid] = layers[i]
      /\ \A u \in -1..(MaxLayers + 1) :
           LET r == styleForUUID(layersByUUID, u).val
           IN  IF \E i \in 1..Len(layers) : layers[i].uuid = u
               THEN r.uuid = u /\ \E i \in 1..Len(layers) : layers[i] = r
               ELSE r = NoLayer

\* C7 witness: styleForUUID found the second of two layers that share a name
C7_Witness ==
    /\ parsed
    /\ ret.op = "styleForUUID"
    /\ Len(layers) = 2
    /\ layers[1].ident = layers[2].ident
    /\ ret.val = layers[2]

\* C8 as stated: every built layer has drawPriority = baseDrawPriority + the
\* zero-based position of its entry in the layers array.
C8_AsStated ==
    parsed =>
      /\ Len(layers) = Len(BuiltPositions(styleDict))
      /\ \A k \in 1..Len(layers) :
           layers[k].drawPriority
             = baseDrawPriority + (BuiltPositions(styleDict)[k] - 1)


-----------------------------------------------------------------------------
(* Stop functions: MaplyVectorFunctionStops *)

\* the zoom levels of stops, and the zoom levels a function is evaluated at:
\* below the first and beyond the last level, on the levels and inside the
\* brackets
StopZooms  == {5 * k : k \in 0..MaxZoomIdx}
QueryZooms == {z \in -3..(5 * MaxZoomIdx + 3) : z % 5 \in {0, 2}}

\* the numbers, colors and text fields stops carry
Vals   == {0, 30, 100}
NoColor == <<>>
Colors == {<<0, 0, 0, 255>>, <<255, 51, 0, 102>>}
NoText == [chunks |-> <<>>, valid |-> FALSE]
TextOf(str) == [chunks |-> <<[str |-> str, keys |-> <<>>]>>, valid |-> TRUE]
Texts  == {TextOf("low"), TextOf("high")}

\* the bases: 1 is linear, any other exponential
Bases == {1, 2}

\* a MaplyVectorFunctionStop as its constructor leaves it: zoom(-1.0), val(0.0)
NewStop == [zoom |-> -1, val |-> 0, color |-> NoColor, textField |-> NoText]

\* the stops MaplyVectorFunctionStops::parse makes of [zoom, number],
\* [zoom, color] and [zoom, text] entries
NumStops   == {[NewStop EXCEPT !.zoom = z, !.val = v] : z \in StopZooms, v \in Vals}
ColorStops == {[NewStop EXCEPT !.zoom = z, !.color = c] : z \in StopZooms, c \in Colors}
TextStops  == {[NewStop EXCEPT !.zoom = z, !.textField = t] : z \in StopZooms, t \in Texts}

\* the stop functions of the model: numeric ones of one stop and more (parse
\* gives up after the first stop of a malformed array and transDouble keeps
\* the object), color and text ones of two and more
StopFunctions ==
    {[base |-> b, kind |-> "num", stops |-> q] :
        b \in Bases, q \in SeqsUpTo(NumStops, MaxStops) \ {<<>>}}
    \cup {[base |-> b, kind |-> "color", stops |-> q] :
        b \in Bases, q \in {p \in SeqsUpTo(ColorStops, MaxStops) : Len(p) >= 2}}
    \cup {[base |-> b, kind |-> "text", stops |-> q] :
        b \in Bases, q \in {p \in SeqsUpTo(TextStops, MaxStops) : Len(p) >= 2}}

(* Rational numbers p/q, q > 0, in lowest terms, stand for the doubles *)

RECURSIVE Gcd(_, _)
Gcd(a, b) == IF b = 0 THEN a ELSE Gcd(b, a % b)

Abs(a) == IF a < 0 THEN -a ELSE a

Rat(p, q) ==
    LET n == IF q < 0 THEN -p ELSE p
        d == Abs(q)
        g == Gcd(Abs(n), d)
    IN  <<n \div g, d \div g>>

RatInt(n) == <<n, 1>>
RatAdd(x, y) == Rat(x[1] * y[2] + y[1] * x[2], x[2] * y[2])
RatMul(x, y) == Rat(x[1] * y[1], x[2] * y[2])

\* pow(base, e) for the whole exponents e >= 0 of the model
RECURSIVE pow(_, _)
pow(b, e) == IF e = 0 THEN 1 ELSE b * pow(b, e - 1)

\* the ratio whose exponential numerator is pow(base, soFar), without `- 1.0`
ratio_noMinusOne(base, a, b, zoom) ==
    IF base = 1
    THEN Rat(zoom - a.zoom, b.zoom - a.zoom)
    ELSE Rat(pow(base, zoom - a.zoom), pow(base, b.zoom - a.zoom) - 1)

\* the interpolation ratio of zoom inside the bracket [a, b) (a.zoom <= zoom <
\* b.zoom), shared by valueForZoom and colorForZoom
ratio(base, a, b, zoom) ==
    IF base = 1
    THEN Rat(zoom - a.zoom, b.zoom - a.zoom)
    ELSE Rat(pow(base, zoom - a.zoom) - 1, pow(base, b.zoom - a.zoom) - 1)

\* the bracket the loop of the three evaluators stops at for zoom > stops[1]
\* .zoom: the first `which` >= 2 with stops[which-1].zoom <= zoom <
\* stops[which].zoom, and 0 when the loop runs out
RECURSIVE findBracket(_, _, _)
findBracket(stops, zoom, which) ==
    IF which > Len(stops) THEN 0
    ELSE IF stops[which - 1].zoom <= zoom /\ zoom < stops[which].zoom THEN which
    ELSE findBracket(stops, zoom, which + 1)

\* the loop without its `a = b`: the lower stop stays the first one
RECURSIVE findBracket_staleLower(_, _, _)
findBracket_staleLower(stops, zoom, which) ==
    IF which > Len(stops) THEN 0
    ELSE IF stops[1].zoom <= zoom /\ zoom < stops[which].zoom THEN which
    ELSE findBracket_staleLower(stops, zoom, which + 1)

\* valueForZoom whose lower stop stays the first one
valueForZoom_staleLower(f, zoom) ==
    LET stops == f.stops
        which == findBracket_staleLower(stops, zoom, 2)
    IN  IF zoom <= stops[1].zoom THEN RatInt(stops[1].val)
        ELSE IF which # 0
        THEN LET a == stops[1]
                 b == stops[which]
             IN  RatAdd(RatMul(ratio(f.base, a, b, zoom), RatInt(b.val - a.val)),
                        RatInt(a.val))
        ELSE IF Len(stops) >= 2 THEN RatInt(stops[Len(stops)].val)
        ELSE RatInt(0)

\* valueForZoom: the double it returns
valueForZoom(f, zoom) ==
    LET stops == f.stops
        which == findBracket(stops, zoom, 2)
    IN  IF zoom <= stops[1].zoom THEN RatInt(stops[1].val)
        ELSE IF which # 0
        THEN LET a == stops[which - 1]
                 b == stops[which]
             IN  RatAdd(RatMul(ratio(f.base, a, b, zoom), RatInt(b.val - a.val)),
                        RatInt(a.val))
        ELSE IF Len(stops) >= 2 THEN RatInt(stops[Len(stops)].val)
        ELSE RatInt(0)

\* RGBAColor::FromUnitFloats of the blend of two colors: each channel is
\* ratio * (bc - ac) + ac in unit floats, brought back to 8 bits
blendColors(ac, bc, r) ==
    [ii \in 1..4 |->
        LET x == RatAdd(RatMul(r, RatInt(bc[ii] - ac[ii])), RatInt(ac[ii]))
        IN  x[1] \div x[2]]

\* what a dereference of a null RGBAColorRef leads to
Crash == <<"crash">>

\* colorForZoom with `zoom < a->zoom` as its first test: on the first stop's
\* level it goes into the loop
colorForZoom_strictFirst(f, zoom) ==
    LET stops == f.stops
        which == findBracket(stops, zoom, 2)
    IN  IF zoom < stops[1].zoom THEN stops[1].color
        ELSE IF which # 0
        THEN LET a == stops[which - 1]
                 b == stops[which]
             IN  IF a.color = NoColor \/ b.color = NoColor THEN Crash
                 ELSE blendColors(a.color, b.color, ratio(f.base, a, b, zoom))
        ELSE IF Len(stops) >= 2 THEN stops[Len(stops)].color
        ELSE NoColor

\* colorForZoom: the RGBAColorRef it returns
colorForZoom(f, zoom) ==
    LET stops == f.stops
        which == findBracket(stops, zoom, 2)
    IN  IF zoom <= stops[1].zoom THEN stops[1].color
        ELSE IF which # 0
        THEN LET a == stops[which - 1]
                 b == stops[which]
             IN  IF a.color = NoColor \/ b.color = NoColor THEN Crash
                 ELSE blendColors(a.color, b.color, ratio(f.base, a, b, zoom))
        ELSE IF Len(stops) >= 2 THEN stops[Len(stops)].color
        ELSE NoColor

\* textForZoom that returns the upper stop's template inside a bracket
textForZoom_upper(f, zoom) ==
    LET stops == f.stops
        which == findBracket(stops, zoom, 2)
    IN  IF zoom <= stops[1].zoom THEN stops[1].textField
        ELSE IF which # 0 THEN stops[which].textField
        ELSE IF Len(stops) >= 2 THEN stops[Len(stops)].textField
        ELSE NoText

\* textForZoom: the MapboxRegexField it returns
textForZoom(f, zoom) ==
    LET stops == f.stops
        which == findBracket(stops, zoom, 2)
    IN  IF zoom <= stops[1].zoom THEN stops[1].textField
        ELSE IF which # 0 THEN stops[which - 1].textField
        ELSE IF Len(stops) >= 2 THEN stops[Len(stops)].textField
        ELSE NoText

\* a MapboxTransDouble: [ref, val, stops] with ref "null", "value" (a constant)
\* or "stops" (a stop function); NoStops is the stops of a constant
NoStops == [base |-> 1, kind |-> "none", stops |-> <<>>]
DoubleProp(ref, val, f) == [ref |-> ref, val |-> val, stops |-> f]

\* MAXFLOAT, above every stop value of the model
MAXFLOAT == 2147483647

\* minValue that returns the value of the last stop
minValue_lastStop(f) == RatInt(f.stops[Len(f.stops)].val)

\* std::min and std::max of two doubles
min(x, y) == IF y < x THEN y ELSE x
max(x, y) == IF x < y THEN y ELSE x

\* the loops of minValue and maxValue from the k-th stop on
RECURSIVE minOver(_, _, _)
minOver(stops, k, val) ==
    IF k > Len(stops) THEN val ELSE minOver(stops, k + 1, min(val, stops[k].val))
RECURSIVE maxOver(_, _, _)
maxOver(stops, k, val) ==
    IF k > Len(stops) THEN val ELSE maxOver(stops, k + 1, max(val, stops[k].val))

\* MaplyVectorFunctionStops::minValue and maxValue
minValue(f) == RatInt(minOver(f.stops, 1, MAXFLOAT))
maxValue(f) == RatInt(maxOver(f.stops, 1, -MAXFLOAT))

\* MapboxTransDouble::valForZoom
MapboxTransDouble_valForZoom(opacity, zoom) ==
    IF opacity.ref = "stops" THEN valueForZoom(opacity.stops, zoom) ELSE opacity.val

\* MapboxTransDouble::minVal and maxVal
minVal(prop) == IF prop.ref = "stops" THEN minValue(prop.stops) ELSE prop.val
maxVal(prop) == IF prop.ref = "stops" THEN maxValue(prop.stops) ELSE prop.val

\* the numeric properties of a state: the one backed by the stop function,
\* and the constants
TransDoubles ==
    (IF fstops.kind = "num" THEN {DoubleProp("stops", RatInt(0), fstops)} ELSE {})
    \cup {DoubleProp("value", RatInt(v), NoStops) : v \in Vals}

InitStops ==
    /\ styleDict = <<>>
    /\ baseDrawPriority = 0
    /\ parsed = FALSE
    /\ layers = EmptySet.layers
    /\ layersByName = EmptySet.layersByName
    /\ layersByUUID = EmptySet.layersByUUID
    /\ layersBySource = EmptySet.layersBySource
    /\ currentID = EmptySet.currentID
    /\ ret = NoRet
    /\ fstops \in StopFunctions
    /\ zret = IdleZret
    /\ calls = IdleCalls
    /\ IdleLeaves

\* MapboxTransDouble::valForZoom on a stop-backed property
ValueForZoom ==
    /\ fstops.kind = "num"
    /\ \E zoom \in QueryZooms :
         zret' = [fn |-> "valueForZoom", zoom |-> zoom, val |-> valueForZoom(fstops, zoom)]
    /\ UNCHANGED <<leafVars, setVars, fstops, calls>>

\* MapboxTransColor::colorForZoom on a stop-backed property
ColorForZoom ==
    /\ fstops.kind = "color"
    /\ \E zoom \in QueryZooms :
         zret' = [fn |-> "colorForZoom", zoom |-> zoom, val |-> colorForZoom(fstops, zoom)]
    /\ UNCHANGED <<leafVars, setVars, fstops, calls>>

\* MapboxTransText::textForZoom on a stop-backed property
TextForZoom ==
    /\ fstops.kind = "text"
    /\ \E zoom \in QueryZooms :
         zret' = [fn |-> "textForZoom", zoom |-> zoom, val |-> textForZoom(fstops, zoom)]
    /\ UNCHANGED <<leafVars, setVars, fstops, calls>>

\* MapboxTransDouble::minVal and maxVal on a property
MinVal ==
    /\ \E prop \in TransDoubles :
         ret' = [op |-> "minVal", val |-> minVal(prop), prop |-> prop]
    /\ UNCHANGED <<leafVars, styleDict, baseDrawPriority, parsed, layers, layersByName,
                   layersByUUID, layersBySource, currentID, stopVars, calls>>

MaxVal ==
    /\ \E prop \in TransDoubles :
         ret' = [op |-> "maxVal", val |-> maxVal(prop), prop |-> prop]
    /\ UNCHANGED <<leafVars, styleDict, baseDrawPriority, parsed, layers, layersByName,
                   layersByUUID, layersBySource, currentID, stopVars, calls>>

NextStops ==
    \/ MinVal
    \/ MaxVal
    \/ ValueForZoom
    \/ ColorForZoom
    \/ TextForZoom

SpecStops == InitStops /\ [][NextStops]_vars


-----------------------------------------------------------------------------
(* Properties of the stop functions *)

First(f) == f.stops[1]
Last(f)  == f.stops[Len(f.stops)]

\* the stops are in ascending zoom order, with and without ties
Ascending(f) ==
    \A k \in 1..(Len(f.stops) - 1) : f.stops[k].zoom <= f.stops[k + 1].zoom
StrictlyAscending(f) ==
    \A k \in 1..(Len(f.stops) - 1) : f.stops[k].zoom < f.stops[k + 1].zoom

\* a.val + (z - a.zoom) / (b.zoom - a.zoom) * (b.val - a.val)
LinearBetween(a, b, z) ==
    Rat(a.val * (b.zoom - a.zoom) + (z - a.zoom) * (b.val - a.val), b.zoom - a.zoom)

\* the stops [(0, 0), (10, 100)]
ExampleStops ==
    <<[NewStop EXCEPT !.zoom = 0, !.val = 0], [NewStop EXCEPT !.zoom = 10, !.val = 100]>>

\* C9: for a numeric function of base 1 with strictly ascending stops,
\* valueForZoom(z) with a.zoom <= z < b.zoom for consecutive stops a, b is
\* a.val + (z - a.zoom)/(b.zoom - a.zoom) * (b.val - a.val); the stops
\* [(0,0),(10,100)] give 50 at zoom 5.
C9_LinearInterpolation ==
    (fstops.kind = "num" /\ fstops.base = 1 /\ Len(fstops.stops) >= 2
       /\ StrictlyAscending(fstops)) =>
      /\ \A k \in 1..(Len(fstops.stops) - 1) :
           \A z \in QueryZooms :
             (fstops.stops[k].zoom <= z /\ z < fstops.stops[k + 1].zoom) =>
               valueForZoom(fstops, z)
                 = LinearBetween(fstops.stops[k], fstops.stops[k + 1], z)
      /\ (fstops.stops = ExampleStops => valueForZoom(fstops, 5) = RatInt(50))
      /\ (zret.fn = "valueForZoom" =>
            \A k \in 1..(Len(fstops.stops) - 1) :
              (fstops.stops[k].zoom <= zret.zoom /\ zret.zoom < fstops.stops[k + 1].zoom) =>
                zret.val = LinearBetween(fstops.stops[k], fstops.stops[k + 1], zret.zoom))

\* C9 witness: valueForZoom(7) was taken inside the second bracket of three
\* strictly ascending stops whose middle value is off the line of the outer
\* two
C9_Witness ==
    /\ fstops.kind = "num" /\ fstops.base = 1
    /\ Len(fstops.stops) = 3 /\ StrictlyAscending(fstops)
    /\ fstops.stops[1].val = 0 /\ fstops.stops[2].val = 100 /\ fstops.stops[3].val = 30
    /\ zret.fn = "valueForZoom" /\ zret.zoom = 7
    /\ zret.val = Rat(360, 5)

\* what the evaluator of the function's kind returns
Evaluated(f, z) ==
    IF f.kind = "num" THEN valueForZoom(f, z)
    ELSE IF f.kind = "color" THEN colorForZoom(f, z)
    ELSE textForZoom(f, z)

\* the value a stop carries for the function's kind
StopValue(f, stop) ==
    IF f.kind = "num" THEN RatInt(stop.val)
    ELSE IF f.kind = "color" THEN stop.color
    ELSE stop.textField

\* C10 as stated: with two or more stops in ascending zoom order and any
\* base, each evaluator returns the first stop's value for z <= first.zoom
\* and the last stop's value for z >= last.zoom.
C10_AsStated ==
    (Len(fstops.stops) >= 2 /\ Ascending(fstops)) =>
      \A z \in QueryZooms :
        /\ z <= First(fstops).zoom =>
             Evaluated(fstops, z) = StopValue(fstops, First(fstops))
        /\ z >= Last(fstops).zoom =>
             Evaluated(fstops, z) = StopValue(fstops, Last(fstops))

\* C10 amended: ... the first stop's value for z <= first.zoom, and the last
\* stop's value for z >= last.zoom when z > first.zoom (stops that all sit on
\* one level give the first stop's value on that level).
C10_Amended ==
    (Len(fstops.stops) >= 2 /\ Ascending(fstops)) =>
      /\ \A z \in QueryZooms :
           /\ z <= First(fstops).zoom =>
                Evaluated(fstops, z) = StopValue(fstops, First(fstops))
           /\ (z >= Last(fstops).zoom /\ z > First(fstops).zoom) =>
                Evaluated(fstops, z) = StopValue(fstops, Last(fstops))
      /\ (zret.fn # "none" /\ zret.zoom <= First(fstops).zoom) =>
           zret.val = StopValue(fstops, First(fstops))
      /\ (zret.fn # "none" /\ zret.zoom >= Last(fstops).zoom
            /\ zret.zoom > First(fstops).zoom) =>
           zret.val = StopValue(fstops, Last(fstops))

\* C10 witness: colorForZoom of an exponential function was taken on the
\* level that all its stops share and gave the first color, not the last
C10_Witness ==
    /\ fstops.kind = "color" /\ fstops.base = 2
    /\ Len(fstops.stops) = 3 /\ Ascending(fstops)
    /\ First(fstops).zoom = Last(fstops).zoom
    /\ First(fstops).color # Last(fstops).color
    /\ zret.fn = "colorForZoom" /\ zret.zoom = Last(fstops).zoom
    /\ zret.val = First(fstops).color

\* C11 as stated: for a numeric function of any base with stops in ascending
\* zoom order, valueForZoom at a stop's zoom returns that stop's value.
C11_AsStated ==
    (fstops.kind = "num" /\ Ascending(fstops)) =>
      \A k \in 1..Len(fstops.stops) :
        valueForZoom(fstops, fstops.stops[k].zoom) = RatInt(fstops.stops[k].val)

\* C11 amended: for a numeric function of any base with stops in strictly
\* ascending zoom order (no two stops on one level), valueForZoom at a stop's
\* zoom returns that stop's value: the brackets are half-open [a.zoom, b.zoom)
\* and the ratio on the lower boundary is 0.
C11_Amended ==
    (fstops.kind = "num" /\ StrictlyAscending(fstops)) =>
      /\ \A k \in 1..Len(fstops.stops) :
           valueForZoom(fstops, fstops.stops[k].zoom) = RatInt(fstops.stops[k].val)
      /\ \A k \in 1..(Len(fstops.stops) - 1) :
           ratio(fstops.base, fstops.stops[k], fstops.stops[k + 1],
                 fstops.stops[k].zoom) = RatInt(0)
      /\ zret.fn = "valueForZoom" =>
           \A k \in 1..Len(fstops.stops) :
             zret.zoom = fstops.stops[k].zoom => zret.val = RatInt(fstops.stops[k].val)

\* C11 witness: valueForZoom of an exponential function was taken on the
\* level of the middle one of three strictly ascending stops and gave its
\* value, which neither neighbour carries
C11_Witness ==
    /\ fstops.kind = "num" /\ fstops.base = 2
    /\ Len(fstops.stops) = 3 /\ StrictlyAscending(fstops)
    /\ fstops.stops[2].val = 100
    /\ fstops.stops[1].val = 0 /\ fstops.stops[3].val = 30
    /\ zret.fn = "valueForZoom" /\ zret.zoom = fstops.stops[2].zoom
    /\ zret.val = RatInt(100)

\* [(0,"low"),(10,"high")] gives "low" at 5 and "high" at 15
TextExample(f) ==
    (/\ Len(f.stops) = 2
     /\ First(f).zoom = 0 /\ Last(f).zoom = 10
     /\ First(f).textField = TextOf("low")
     /\ Last(f).textField = TextOf("high")) =>
      /\ textForZoom(f, 5) = TextOf("low")
      /\ textForZoom(f, 15) = TextOf("high")

\* what C12 says of textForZoom(z) = t: t is the lower stop's template when
\* a.zoom <= z < b.zoom for consecutive stops a, b, the last stop's template
\* when z is at or beyond the last stop, and always one of the templates
TextStep(f, z, t) ==
    /\ \E k \in 1..Len(f.stops) : t = f.stops[k].textField
    /\ \A k \in 1..(Len(f.stops) - 1) :
         (f.stops[k].zoom <= z /\ z < f.stops[k + 1].zoom) => t = f.stops[k].textField
    /\ z >= Last(f).zoom => t = Last(f).textField

\* C12 as stated: for text stops in ascending zoom order textForZoom returns
\* the lower stop's template whenever a.zoom <= z < b.zoom, the last stop's
\* template at or beyond the last stop, and always one of the stops'
\* templates.
C12_AsStated ==
    (fstops.kind = "text" /\ Len(fstops.stops) >= 2 /\ Ascending(fstops)) =>
      /\ \A z \in QueryZooms \cup {15} : TextStep(fstops, z, textForZoom(fstops, z))
      /\ TextExample(fstops)

\* C12 amended: for text stops in strictly ascending zoom order (no two stops
\* on one level) textForZoom never blends: it returns the lower stop's
\* template whenever a.zoom <= z < b.zoom, the last stop's template at or
\* beyond the last stop, and always one of the stops' templates;
\* [(0,"low"),(10,"high")] gives "low" at 5 and "high" at 15.
C12_Amended ==
    (fstops.kind = "text" /\ Len(fstops.stops) >= 2 /\ StrictlyAscending(fstops)) =>
      /\ \A z \in QueryZooms \cup {15} : TextStep(fstops, z, textForZoom(fstops, z))
      /\ zret.fn = "textForZoom" => TextStep(fstops, zret.zoom, zret.val)
      /\ TextExample(fstops)

\* C12 witness: textForZoom(7) was taken on [(0,"low"),(10,"high")] and gave
\* "low"
C12_Witness ==
    /\ fstops.kind = "text" /\ Len(fstops.stops) = 2
    /\ First(fstops).zoom = 0 /\ Last(fstops).zoom = 10
    /\ First(fstops).textField = TextOf("low")
    /\ Last(fstops).textField = TextOf("high")
    /\ zret.fn = "textForZoom" /\ zret.zoom = 7
    /\ zret.val = TextOf("low")


-----------------------------------------------------------------------------
(* Queries from several worker threads after parse.  A thread is inside at  *)
(* most one call; a call on the by-source index advances one element of its *)
(* range per step and reads the index anew each time, so the steps of the   *)
(* threads interleave element by element.                                   *)

Threads == {"t1", "t2"}

\* the documents of the threaded model: layers arrays over five entries
ConcEntries ==
    {LayerEntry("unsupported", "", "", NoFilter, FALSE, ""),
     LayerEntry("background", strBackground, "", NoFilter, TRUE, ""),
     LayerEntry("fill", "roads", "water", "class=road&z<1", TRUE, ""),
     LayerEntry("fill", "roads", "water", NoFilter, FALSE, "selected"),
     LayerEntry("fill", strBackground, "land", NoFilter, FALSE, "")}
ConcDocuments == SeqsUpTo(ConcEntries, MaxLayers)

\* a thread outside any call
IdleCall == [pc |-> "idle", op |-> "none", arg |-> <<>>, i |-> 0, acc |-> <<>>,
             result |-> <<>>]

\* a call as it returns
Returned(c, result) == [c EXCEPT !.pc = "done", !.result = result]

\* the place in the index of the i-th pair of the range of key k
RangePositions(mm, k) ==
    SelectSeq([j \in 1..Len(mm) |-> j], LAMBDA j : mm[j][1] = k)

\* stylesForFeature where the kept layer is moved out of the index entry
\* (styles.push_back(std::move(layer)) through the reference into the map)
sffStep_moveOut(bySource, c) ==
    LET range == equal_range(bySource, c.arg[3])
        at    == RangePositions(bySource, c.arg[3])
    IN  IF c.i > Len(range)
        THEN [call |-> Returned(c, c.acc), map |-> bySource]
        ELSE IF passes(range[c.i][2], c.arg[1], c.arg[2])
        THEN [call |-> [c EXCEPT !.i = c.i + 1, !.acc = Append(c.acc, range[c.i][2])],
              map  |-> [bySource EXCEPT ![at[c.i]] = <<c.arg[3], NoLayer>>]]
        ELSE [call |-> [c EXCEPT !.i = c.i + 1], map |-> bySource]

\* one turn of the loop of stylesForFeature (or its return, past the range):
\* the call and the index afterwards
sffStep(bySource, c) ==
    LET range == equal_range(bySource, c.arg[3])
    IN  IF c.i > Len(range)
        THEN [call |-> Returned(c, c.acc), map |-> bySource]
        ELSE IF passes(range[c.i][2], c.arg[1], c.arg[2])
        THEN [call |-> [c EXCEPT !.i = c.i + 1, !.acc = Append(c.acc, range[c.i][2])],
              map  |-> bySource]
        ELSE [call |-> [c EXCEPT !.i = c.i + 1], map |-> bySource]

\* one turn of the loop of layerShouldDisplay (or its return false)
lsdStep(bySource, c) ==
    LET range == equal_range(bySource, c.arg[1])
    IN  IF c.i > Len(range)
        THEN [call |-> Returned(c, FALSE), map |-> bySource]
        ELSE IF range[c.i][2].visible \/ range[c.i][2].representation # ""
        THEN [call |-> Returned(c, TRUE), map |-> bySource]
        ELSE [call |-> [c EXCEPT !.i = c.i + 1], map |-> bySource]

InitConc ==
    /\ styleDict \in ConcDocuments
    /\ baseDrawPriority \in BasePriorities
    /\ parsed = TRUE
    /\ layers = parse(EmptySet, styleDict, baseDrawPriority).layers
    /\ layersByName = parse(EmptySet, styleDict, baseDrawPriority).layersByName
    /\ layersByUUID = parse(EmptySet, styleDict, baseDrawPriority).layersByUUID
    /\ layersBySource = parse(EmptySet, styleDict, baseDrawPriority).layersBySource
    /\ currentID = parse(EmptySet, styleDict, baseDrawPriority).currentID
    /\ ret = [op |-> "parse", val |-> TRUE]
    /\ fstops = IdleStops
    /\ zret = IdleZret
    /\ calls = [t \in Threads |-> IdleCall]
    /\ IdleLeaves

\* a thread enters stylesForFeature: equal_range, then the loop
CallStylesForFeature(t) ==
    /\ calls[t].pc = "idle"
    /\ \E attrs \in Attrs, layerName \in {"water", "land"} :
         calls' = [calls EXCEPT ![t] =
                     [IdleCall EXCEPT !.pc = "sff", !.op = "stylesForFeature",
                                      !.arg = <<attrs, 0, layerName>>, !.i = 1]]
    /\ UNCHANGED <<leafVars, setVars, stopVars>>

StepStylesForFeature(t) ==
    /\ calls[t].pc = "sff"
    /\ LET r == sffStep(layersBySource, calls[t])
       IN  /\ calls' = [calls EXCEPT ![t] = r.call]
           /\ layersBySource' = r.map
    /\ UNCHANGED <<leafVars, styleDict, baseDrawPriority, parsed, layers, layersByName,
                   layersByUUID, currentID, ret, stopVars>>

\* a thread enters layerShouldDisplay
CallLayerShouldDisplay(t) ==
    /\ calls[t].pc = "idle"
    /\ \E layerName \in {"water", "land"} :
         calls' = [calls EXCEPT ![t] =
                     [IdleCall EXCEPT !.pc = "lsd", !.op = "layerShouldDisplay",
                                      !.arg = <<layerName, 0>>, !.i = 1]]
    /\ UNCHANGED <<leafVars, setVars, stopVars>>

StepLayerShouldDisplay(t) ==
    /\ calls[t].pc = "lsd"
    /\ LET r == lsdStep(layersBySource, calls[t])
       IN  /\ calls' = [calls EXCEPT ![t] = r.call]
           /\ layersBySource' = r.map
    /\ UNCHANGED <<leafVars, styleDict, baseDrawPriority, parsed, layers, layersByName,
                   layersByUUID, currentID, ret, stopVars>>

\* a thread calls getLayer: one find
CallGetLayer(t) ==
    /\ calls[t].pc = "idle"
    /\ \E inName \in {strBackground, "missing"} :
         LET r == getLayer(layersByName, inName)
         IN  /\ calls' = [calls EXCEPT ![t] =
                            [IdleCall EXCEPT !.pc = "done", !.op = "getLayer",
                                             !.arg = <<inName>>, !.result = r.val]]
             /\ layersByName' = r.map
    /\ UNCHANGED <<leafVars, styleDict, baseDrawPriority, parsed, layers, layersByUUID,
                   layersBySource, currentID, ret, stopVars>>

\* a thread calls styleForUUID: one find
CallStyleForUUID(t) ==
    /\ calls[t].pc = "idle"
    /\ \E uuid \in {0, MaxLayers} :
         LET r == styleForUUID(layersByUUID, uuid)
         IN  /\ calls' = [calls EXCEPT ![t] =
                            [IdleCall EXCEPT !.pc = "done", !.op = "styleForUUID",
                                             !.arg = <<uuid>>, !.result = r.val]]
             /\ layersByUUID' = r.map
    /\ UNCHANGED <<leafVars, styleDict, baseDrawPriority, parsed, layers, layersByName,
                   layersBySource, currentID, ret, stopVars>>

\* the caller takes the result
Return(t) ==
    /\ calls[t].pc = "done"
    /\ calls' = [calls EXCEPT ![t] = IdleCall]
    /\ UNCHANGED <<leafVars, setVars, stopVars>>

NextConc ==
    \E t \in Threads :
        \/ CallStylesForFeature(t)
        \/ StepStylesForFeature(t)
        \/ CallLayerShouldDisplay(t)
        \/ StepLayerShouldDisplay(t)
        \/ CallGetLayer(t)
        \/ CallStyleForUUID(t)
        \/ Return(t)

SpecConc == InitConc /\ [][NextConc]_vars

\* what a call returns when it runs alone on the style set st
Alone(st, c) ==
    IF c.op = "stylesForFeature"
    THEN stylesForFeature(st.layersBySource, c.arg[1], c.arg[2], c.arg[3]).val
    ELSE IF c.op = "layerShouldDisplay"
    THEN layerShouldDisplay(st.layersBySource, c.arg[1], c.arg[2]).val
    ELSE IF c.op = "getLayer"
    THEN getLayer(st.layersByName, c.arg[1]).val
    ELSE styleForUUID(st.layersByUUID, c.arg[1]).val

\* C3: after parse, however the calls of the threads interleave, no step of a
\* call writes the layer list, an index or the id counter, and a call that
\* returns gives what it gives when it runs alone on the parsed style set.
C3_ConcurrentReads ==
    [][/\ layers' = layers
       /\ layersByName' = layersByName
       /\ layersByUUID' = layersByUUID
       /\ layersBySource' = layersBySource
       /\ currentID' = currentID
       /\ \A t \in Threads :
            calls'[t].pc = "done" =>
              calls'[t].result
                = Alone(parse(EmptySet, styleDict, baseDrawPriority), calls'[t])]_vars

\* C3 witness: a stylesForFeature call that kept two layers has returned
\* while the other thread is in the middle of the same range
C3_Witness ==
    /\ calls["t1"].pc = "done" /\ calls["t1"].op = "stylesForFeature"
    /\ Len(calls["t1"].result) = 2
    /\ calls["t2"].pc = "sff" /\ calls["t2"].i = 2
    /\ calls["t2"].arg[3] = calls["t1"].arg[3]


-----------------------------------------------------------------------------
(* Text templates: MapboxRegexField.  Strings are sequences of characters.  *)

\* the longest template string
MaxTemplateLen == 5

\* the characters of templates: the two delimiters, the colon, a word
\* character and a blank
Chars == {"{", "}", ":", "n", " "}
Templates == SeqsUpTo(Chars, MaxTemplateLen)

\* std::isspace, and the class \w of colonPattern
isspace(c) == c = " "
IsWord(c) == c \in {"n", "_", "A", "B"}

\* the attributes of a feature: each of three fields is absent, empty or
\* carries a value
AttrKeys == {<<"n">>, <<"n", ":", "n">>, <<"n", "_", "n">>}
AttrValues == {<<>>, <<"A">>, <<" ", "B">>}
AttrSets == UNION {[present -> AttrValues] : present \in SUBSET AttrKeys}

\* Dictionary::hasField and Dictionary::getString
hasField(dict, key) == key \in DOMAIN dict
getString(dict, key) == IF hasField(dict, key) THEN dict[key] ELSE <<>>

\* std::sregex_token_iterator over fieldSeparatorPattern [{}]+ with submatch
\* -1: the stretches between the runs of delimiters, the empty stretch before
\* a leading run included
RECURSIVE regexTokens(_, _, _, _)
regexTokens(str, i, cur, acc) ==
    IF i > Len(str)
    THEN IF cur = <<>> THEN acc ELSE Append(acc, cur)
    ELSE IF str[i] \in {"{", "}"}
         THEN IF i = 1 \/ str[i - 1] \notin {"{", "}"}
              THEN regexTokens(str, i + 1, <<>>, Append(acc, cur))
              ELSE regexTokens(str, i + 1, <<>>, acc)
         ELSE regexTokens(str, i + 1, Append(cur, str[i]), acc)

\* a colon match that takes the first colon with anything after it
colonMatch_firstColon(chunk) ==
    LET at == {i \in 1..Len(chunk) : chunk[i] = ":" /\ i < Len(chunk)}
    IN  IF at = {} THEN 0 ELSE CHOOSE i \in at : \A j \in at : i <= j

\* std::regex_search(regexChunk, match, colonPattern) with colonPattern
\* ":\w+$": the start of the leftmost match, 0 when there is none
colonMatch(chunk) ==
    LET at == {i \in 1..Len(chunk) :
                 /\ chunk[i] = ":"
                 /\ i < Len(chunk)
                 /\ \A j \in (i + 1)..Len(chunk) : IsWord(chunk[j])}
    IN  IF at = {} THEN 0 ELSE CHOOSE i \in at : \A j \in at : i <= j

\* a MapboxTextChunk: a literal or the keys of a field
TextChunk(str, keys) == [str |-> str, keys |-> keys]

\* the loop of MapboxRegexField::parse over the tokens from the k-th on
RECURSIVE parseChunks(_, _, _, _)
parseChunks(toks, k, isJustText, chunks) ==
    IF k > Len(toks) THEN chunks
    ELSE IF Len(toks[k]) = 0 THEN parseChunks(toks, k + 1, isJustText, chunks)
    ELSE LET regexChunk == toks[k]
             index == colonMatch(regexChunk)
             textChunk ==
                 IF isJustText THEN TextChunk(regexChunk, <<>>)
                 ELSE IF index # 0
                      THEN TextChunk(<<>>, <<regexChunk,
                                             [regexChunk EXCEPT ![index] = "_"]>>)
                      ELSE TextChunk(<<>>, <<regexChunk>>)
         IN  parseChunks(toks, k + 1, ~isJustText, Append(chunks, textChunk))

\* MapboxRegexField::parse(textField) on a field with the chunks it has
MapboxRegexField_parse(f, str) ==
    [chunks |-> parseChunks(regexTokens(str, 1, <<>>, <<>>), 1,
                            Len(str) = 0 \/ str[1] # "{", f.chunks),
     valid |-> TRUE]

\* trim: blanks popped off the back, then erased up to the first non-blank
RECURSIVE trimRight(_)
trimRight(str) ==
    IF str # <<>> /\ isspace(str[Len(str)])
    THEN trimRight(SubSeq(str, 1, Len(str) - 1))
    ELSE str
trimLeft(str) ==
    LET at == {i \in 1..Len(str) : ~isspace(str[i])}
    IN  IF at = {} THEN str
        ELSE SubSeq(str, CHOOSE i \in at : \A j \in at : i <= j, Len(str))
trim(str) == trimLeft(trimRight(str))

\* the loop of build over the keys of one chunk with `found` set only by a
\* non-empty value
RECURSIVE buildKeys_foundNonEmpty(_, _, _, _)
buildKeys_foundNonEmpty(keys, k, dict, b) ==
    IF k > Len(keys) THEN b
    ELSE LET key == keys[k]
             b1 == [b EXCEPT !.didLookup = TRUE]
         IN  IF hasField(dict, key) /\ getString(dict, key) # <<>>
             THEN [b1 EXCEPT !.found = TRUE, !.text = b1.text \o getString(dict, key)]
             ELSE buildKeys_foundNonEmpty(keys, k + 1, dict, b1)

\* the loop of build over the keys of one chunk: b = [found, didLookup, text]
RECURSIVE buildKeys(_, _, _, _)
buildKeys(keys, k, dict, b) ==
    IF k > Len(keys) THEN b
    ELSE LET key == keys[k]
             b1 == [b EXCEPT !.didLookup = TRUE]
         IN  IF hasField(dict, key)
             THEN LET keyVal == getString(dict, key)
                      b2 == [b1 EXCEPT !.found = TRUE]
                  IN  IF keyVal # <<>>
                      THEN [b2 EXCEPT !.text = b2.text \o keyVal]
                      ELSE buildKeys(keys, k + 1, dict, b2)
             ELSE buildKeys(keys, k + 1, dict, b1)

\* the loop of build over the chunks
RECURSIVE buildChunks(_, _, _, _)
buildChunks(chunks, c, dict, b) ==
    IF c > Len(chunks) THEN b
    ELSE IF chunks[c].str # <<>>
         THEN buildChunks(chunks, c + 1, dict, [b EXCEPT !.text = b.text \o chunks[c].str])
         ELSE buildChunks(chunks, c + 1, dict, buildKeys(chunks[c].keys, 1, dict, b))

\* MapboxRegexField::build(attrs)
build(f, dict) ==
    LET b == buildChunks(f.chunks, 1, dict,
                         [found |-> FALSE, didLookup |-> FALSE, text |-> <<>>])
    IN  IF b.didLookup /\ ~b.found THEN <<>> ELSE trim(b.text)

\* a fresh MapboxRegexField and a template with a feature to build it for
InitText ==
    /\ styleDict = <<>>
    /\ baseDrawPriority = 0
    /\ parsed = FALSE
    /\ layers = EmptySet.layers
    /\ layersByName = EmptySet.layersByName
    /\ layersByUUID = EmptySet.layersByUUID
    /\ layersBySource = EmptySet.layersBySource
    /\ currentID = EmptySet.currentID
    /\ ret = NoRet
    /\ fstops = IdleStops
    /\ zret = IdleZret
    /\ calls = IdleCalls
    /\ textField \in Templates
    /\ featureAttrs \in AttrSets
    /\ field = IdleText.field
    /\ text = IdleText.text
    /\ colorArgs = IdleColor.args
    /\ colorRet = IdleColor.ret
    /\ styleEntry = IdleTrans.styleEntry
    /\ trans = IdleTrans.trans
    /\ resolveArgs = IdleResolve.args
    /\ resolveRet = IdleResolve.ret

\* MapboxRegexField::parse(textField)
ParseField ==
    /\ ~field.valid
    /\ field' = MapboxRegexField_parse(field, textField)
    /\ UNCHANGED <<setVars, stopVars, calls, textField, featureAttrs, text,
                   colorVars, transVars, resolveVars>>

\* MapboxRegexField::build(attrs) on the parsed field
Build ==
    /\ field.valid
    /\ text' = [called |-> TRUE, str |-> build(field, featureAttrs)]
    /\ UNCHANGED <<setVars, stopVars, calls, textField, featureAttrs, field,
                   colorVars, transVars, resolveVars>>

NextText ==
    \/ ParseField
    \/ Build

SpecText == InitText /\ [][NextText]_vars


-----------------------------------------------------------------------------
(* Properties of the text templates *)

\* the key chunks of a field, and a key that yields a non-empty value
KeyChunks(f) == {c \in 1..Len(f.chunks) : f.chunks[c].keys # <<>>}
Yields(dict, key) == key \in DOMAIN dict /\ dict[key] # <<>>

\* the value of the first key of a chunk that yields one, nothing otherwise
FirstValue(keys, dict) ==
    LET at == {k \in 1..Len(keys) : Yields(dict, keys[k])}
    IN  IF at = {} THEN <<>>
        ELSE dict[keys[CHOOSE k \in at : \A j \in at : k <= j]]

\* the literal chunks and the first values of the key chunks from chunk c on
RECURSIVE Concatenation(_, _, _)
Concatenation(f, dict, c) ==
    IF c > Len(f.chunks) THEN <<>>
    ELSE (IF c \in KeyChunks(f) THEN FirstValue(f.chunks[c].keys, dict)
          ELSE f.chunks[c].str) \o Concatenation(f, dict, c + 1)

\* a string without leading and trailing blanks
Trimmed(str) ==
    LET at == {i \in 1..Len(str) : str[i] # " "}
    IN  IF at = {} THEN <<>>
        ELSE SubSeq(str, CHOOSE i \in at : \A j \in at : i <= j,
                         CHOOSE i \in at : \A j \in at : i >= j)

\* C13 as stated: build(attrs) returns the empty string when the template
\* has a key chunk and no key of any key chunk yields a non-empty value
\* (a field present with an empty value included); otherwise the
\* concatenation of the literal chunks and of each key chunk's first
\* non-empty value, without leading and trailing whitespace.
C13_AsStated ==
    (field.valid /\ text.called) =>
      text.str =
        IF /\ KeyChunks(field) # {}
           /\ \A c \in KeyChunks(field) :
                \A k \in 1..Len(field.chunks[c].keys) :
                  ~Yields(featureAttrs, field.chunks[c].keys[k])
        THEN <<>>
        ELSE Trimmed(Concatenation(field, featureAttrs, 1))

\* a segment that ends in a colon followed by one or more word characters,
\* and the place of its last colon
EndsInColonWord(seg) ==
    \E i \in 1..(Len(seg) - 1) :
        seg[i] = ":" /\ \A j \in (i + 1)..Len(seg) : IsWord(seg[j])
LastColon(seg) ==
    CHOOSE i \in 1..Len(seg) :
        seg[i] = ":" /\ \A j \in (i + 1)..Len(seg) : seg[j] # ":"

\* the template {n:n}
ColonTemplate == <<"{", "n", ":", "n", "}">>

\* C14: a key segment that ends in a colon followed by word characters is
\* stored as two keys, the segment and the segment with its last colon
\* replaced by an underscore; every other key segment as one key.  The
\* template {n:n} built for attrs holding only n_n gives that value, and the
\* value of n:n when both are there and non-empty.
C14_FallbackKeys ==
    field.valid =>
      /\ \A c \in KeyChunks(field) :
           LET keys == field.chunks[c].keys
               seg == keys[1]
           IN  /\ \E i \in 1..Len(textField) :
                    /\ i + Len(seg) - 1 <= Len(textField)
                    /\ SubSeq(textField, i, i + Len(seg) - 1) = seg
               /\ IF EndsInColonWord(seg)
                  THEN keys = <<seg, [seg EXCEPT ![LastColon(seg)] = "_"]>>
                  ELSE keys = <<seg>>
      /\ (textField = ColonTemplate /\ text.called) =>
           /\ (DOMAIN featureAttrs = {<<"n", "_", "n">>}
                 /\ featureAttrs[<<"n", "_", "n">>] # <<>>) =>
                text.str = Trimmed(featureAttrs[<<"n", "_", "n">>])
           /\ (Yields(featureAttrs, <<"n", ":", "n">>)
                 /\ Yields(featureAttrs, <<"n", "_", "n">>)) =>
                text.str = Trimmed(featureAttrs[<<"n", ":", "n">>])

\* C14 witness: {n:n} was built for a feature that carries both n:n and n_n
\* with different values, and gave the value of n:n
C14_Witness ==
    /\ textField = ColonTemplate
    /\ field.valid
    /\ field.chunks = <<TextChunk(<<>>, <<<<"n", ":", "n">>, <<"n", "_", "n">>>>)>>
    /\ DOMAIN featureAttrs = {<<"n", ":", "n">>, <<"n", "_", "n">>}
    /\ featureAttrs[<<"n", ":", "n">>] = <<"A">>
    /\ featureAttrs[<<"n", "_", "n">>] = <<" ", "B">>
    /\ text.called /\ text.str = <<"A">>


-----------------------------------------------------------------------------
(* Colors: parseColor.  A color string is a sequence of characters; an      *)
(* RGBAColorRef is [ref, rgba] with ref telling the object pointed to       *)
(* ("null", the caller's "defVal", or a "new" one).                         *)

\* the most hex digits after the '#' of a hex string, and the most
\* characters after the '#' of a hex string with other characters in it
MaxHexLen == 9
MaxMalformedLen == 4

\* the most components between the parentheses of a function form
MaxComponents == 4

\* the hex digits and their values
HexDigits == {"0", "1", "2", "3", "4", "5", "6", "7", "8", "9",
              "a", "b", "c", "d", "e", "f"}
HexValue ==
    ("0" :> 0) @@ ("1" :> 1) @@ ("2" :> 2) @@ ("3" :> 3) @@ ("4" :> 4) @@
    ("5" :> 5) @@ ("6" :> 6) @@ ("7" :> 7) @@ ("8" :> 8) @@ ("9" :> 9) @@
    ("a" :> 10) @@ ("b" :> 11) @@ ("c" :> 12) @@ ("d" :> 13) @@ ("e" :> 14) @@
    ("f" :> 15)
DecDigits == {"0", "1", "2", "3", "4", "5", "6", "7", "8", "9"}

\* the hex strings: digit strings of all lengths, strings with a character
\* that is no hex digit or with a sign, and the short forms over all hex
\* digits (#rgb) and over five of them (#rgba)
LongHexChars == {"1", "f"}
HexChars == {"1", "f", "g", "+"}
QuadDigits == {"0", "3", "8", "c", "f"}
HexStrings ==
    {<<"#">> \o q : q \in SeqsUpTo(LongHexChars, MaxHexLen)}
    \cup {<<"#">> \o q : q \in SeqsUpTo(HexChars, MaxMalformedLen)}
    \cup {<<"#", r, g, b>> : r \in HexDigits, g \in HexDigits, b \in HexDigits}
    \cup {<<"#", r, g, b, a>> : r \in QuadDigits, g \in QuadDigits, b \in QuadDigits,
                                a \in QuadDigits}

\* the function forms: a prefix, components between commas, a closing
\* parenthesis or none
Prefixes == {<<"r", "g", "b", "(">>, <<"r", "g", "b", "a", "(">>,
             <<"h", "s", "l", "(">>, <<"h", "s", "l", "a", "(">>}
Components == {<<"1">>, <<"2">>, <<"3">>, <<"x">>, <<>>, <<"0", ".", "5">>,
               <<"0", ".", "2", "5">>}
RECURSIVE Join(_)
Join(cs) ==
    IF Len(cs) = 0 THEN <<>>
    ELSE IF Len(cs) = 1 THEN cs[1]
    ELSE cs[1] \o <<",">> \o Join(Tail(cs))
FunctionStrings ==
    {pre \o Join(cs) \o close :
        pre \in Prefixes,
        cs \in {q \in SeqsUpTo(Components, MaxComponents) : Len(q) >= 2},
        close \in {<<")">>, <<>>}}

\* the strings handed to parseColor
ColorStrings ==
    HexStrings \cup FunctionStrings
    \cup {<<>>, <<"1", "2", "3">>, <<"r", "e", "d">>}

\* RGBAColorRef values: null, the caller's default, a new color
NullColorRef == [ref |-> "null", rgba |-> <<>>]
DefaultColorRef == [ref |-> "defVal", rgba |-> <<9, 9, 9, 9>>]
NewColor(r, g, b, a) ==
    [ref |-> "new", rgba |-> <<r % 256, g % 256, b % 256, a % 256>>]
\* RGBAColor::FromHSL, with or without alpha: the color is kept as its
\* hue, saturation, lightness and alpha
NewHSLColor(h, sat, light, alpha, multiplyAlpha) ==
    [ref |-> "newHSL",
     rgba |-> <<h, sat, light, alpha[1], alpha[2], IF multiplyAlpha THEN 1 ELSE 0>>]
\* an exception that leaves the call
Thrown == [ref |-> "std::invalid_argument", rgba |-> <<>>]

\* floor of a non-negative rational: the conversion of a double to an integer
Truncate(x) == x[1] \div x[2]

\* RGBAColor(r, g, b).withAlphaMultiply(a): every channel times a
withAlphaMultiply(r, g, b, a) ==
    NewColor(Truncate(RatMul(RatInt(r), a)), Truncate(RatMul(RatInt(g), a)),
             Truncate(RatMul(RatInt(b), a)), Truncate(RatMul(RatInt(255), a)))

\* strtoul(str + 1, &end, 16) on the characters after the '#': an optional
\* plus sign and the run of hex digits; digits are the digits read and end
\* the offset of `end` in the whole string (1 when nothing was converted)
hexRun(cs) ==
    LET stop == {i \in 1..Len(cs) : cs[i] \notin HexDigits}
    IN  IF stop = {} THEN Len(cs) ELSE (CHOOSE i \in stop : \A j \in stop : i <= j) - 1
strtoul16(cs) ==
    LET signed == Len(cs) > 0 /\ cs[1] = "+"
        rest == IF signed THEN Tail(cs) ELSE cs
        n == hexRun(rest)
    IN  IF n = 0 THEN [digits |-> <<>>, end |-> 1]
        ELSE [digits |-> [k \in 1..n |-> HexValue[rest[k]]],
              end |-> 1 + (IF signed THEN 1 ELSE 0) + n]

\* (iVal >> 4k) & 0xf and (iVal >> 8k) & 0xff of the uint32_t iVal, given
\* by its hex digits
nibble(digits, k) ==
    IF k < Len(digits) /\ k < 8 THEN digits[Len(digits) - k] ELSE 0
byte(digits, k) == 16 * nibble(digits, 2 * k + 1) + nibble(digits, 2 * k)

\* the position of the first character of cs from position i on that is in
\* the set, 0 when there is none
firstIn(cs, i, set) ==
    LET at == {j \in i..Len(cs) : cs[j] \in set}
    IN  IF at = {} THEN 0 ELSE CHOOSE j \in at : \A l \in at : j <= l

\* std::sregex_token_iterator over colorSeparatorPattern [(),] with submatch
\* -1: the stretches between the separators; an empty stretch after the last
\* separator is left out, a string without separators is one token
RECURSIVE colorTokens(_, _)
colorTokens(cs, i) ==
    LET j == firstIn(cs, i, {"(", ")", ","})
    IN  IF j = 0
        THEN IF i > Len(cs) /\ i > 1 THEN <<>> ELSE <<SubSeq(cs, i, Len(cs))>>
        ELSE <<SubSeq(cs, i, j - 1)>> \o colorTokens(cs, j + 1)

\* the decimal value of a run of digits
RECURSIVE decimal(_)
decimal(ds) ==
    IF Len(ds) = 0 THEN 0
    ELSE 10 * decimal(SubSeq(ds, 1, Len(ds) - 1)) + HexValue[ds[Len(ds)]]
digitRun(cs) ==
    LET stop == {i \in 1..Len(cs) : cs[i] \notin DecDigits}
    IN  IF stop = {} THEN Len(cs) ELSE (CHOOSE i \in stop : \A j \in stop : i <= j) - 1

\* std::stoi: the leading run of digits, std::invalid_argument without one
stoi(cs) ==
    LET n == digitRun(cs)
    IN  IF n = 0 THEN [ok |-> FALSE, val |-> 0]
        ELSE [ok |-> TRUE, val |-> decimal(SubSeq(cs, 1, n))]

\* std::stod: digits, then a point and digits; std::invalid_argument without
\* a digit
stod(cs) ==
    LET n == digitRun(cs)
        frac == IF n < Len(cs) /\ cs[n + 1] = "."
                THEN SubSeq(cs, n + 2, n + 1 + digitRun(SubSeq(cs, n + 2, Len(cs))))
                ELSE <<>>
    IN  IF n = 0 /\ frac = <<>> THEN [ok |-> FALSE, val |-> RatInt(0)]
        ELSE [ok |-> TRUE,
              val |-> RatAdd(RatInt(decimal(SubSeq(cs, 1, n))),
                             Rat(decimal(frac), pow(10, Len(frac))))]

\* str.find(pre) == 0
StartsWith(str, pre) ==
    Len(str) >= Len(pre) /\ SubSeq(str, 1, Len(pre)) = pre

\* the hex branch without `red |= red << 4` and its like: the digits of the
\* short forms are not doubled
parseHex_noDuplicate(str, defVal, multiplyAlpha) ==
    LET conv == strtoul16(Tail(str))
        iVal == conv.digits
        size == Len(str)
    IN  IF conv.end # size THEN defVal
        ELSE IF size \notin {4, 5, 7, 9} THEN defVal
        ELSE LET red   == IF size = 4 THEN nibble(iVal, 2)
                          ELSE IF size = 5 THEN nibble(iVal, 3)
                          ELSE IF size = 7 THEN byte(iVal, 2)
                          ELSE byte(iVal, 3)
                 green == IF size = 4 THEN nibble(iVal, 1)
                          ELSE IF size = 5 THEN nibble(iVal, 2)
                          ELSE IF size = 7 THEN byte(iVal, 1)
                          ELSE byte(iVal, 2)
                 blue  == IF size = 4 THEN nibble(iVal, 0)
                          ELSE IF size = 5 THEN nibble(iVal, 1)
                          ELSE IF size = 7 THEN byte(iVal, 0)
                          ELSE byte(iVal, 1)
                 alpha == IF size = 5 THEN nibble(iVal, 0)
                          ELSE IF size = 9 THEN byte(iVal, 0)
                          ELSE 255
             IN  IF multiplyAlpha
                 THEN withAlphaMultiply(red, green, blue, Rat(alpha, 255))
                 ELSE NewColor(red, green, blue, alpha)

\* the hex branch of parseColor
parseHex(str, defVal, multiplyAlpha) ==
    LET conv == strtoul16(Tail(str))
        iVal == conv.digits
        size == Len(str)
    IN  IF conv.end # size THEN defVal
        ELSE IF size \notin {4, 5, 7, 9} THEN defVal
        ELSE LET red   == IF size = 4 THEN 17 * nibble(iVal, 2)
                          ELSE IF size = 5 THEN 17 * nibble(iVal, 3)
                          ELSE IF size = 7 THEN byte(iVal, 2)
                          ELSE byte(iVal, 3)
                 green == IF size = 4 THEN 17 * nibble(iVal, 1)
                          ELSE IF size = 5 THEN 17 * nibble(iVal, 2)
                          ELSE IF size = 7 THEN byte(iVal, 1)
                          ELSE byte(iVal, 2)
                 blue  == IF size = 4 THEN 17 * nibble(iVal, 0)
                          ELSE IF size = 5 THEN 17 * nibble(iVal, 1)
                          ELSE IF size = 7 THEN byte(iVal, 0)
                          ELSE byte(iVal, 1)
                 alpha == IF size = 5 THEN 17 * nibble(iVal, 0)
                          ELSE IF size = 9 THEN byte(iVal, 0)
                          ELSE 255
             IN  IF multiplyAlpha
                 THEN withAlphaMultiply(red, green, blue, Rat(alpha, 255))
                 ELSE NewColor(red, green, blue, alpha)

\* the rgba branch with the alpha rounded to the nearest integer
parseRGBA_rounded(toks, defVal, multiplyAlpha) ==
    IF Len(toks) # 4 THEN defVal
    ELSE LET red == stoi(toks[1])
             green == stoi(toks[2])
             blue == stoi(toks[3])
             alpha == stod(toks[4])
         IN  IF ~red.ok \/ ~green.ok \/ ~blue.ok \/ ~alpha.ok THEN Thrown
             ELSE IF multiplyAlpha
             THEN NewColor(Truncate(RatMul(RatInt(red.val), alpha.val)),
                           Truncate(RatMul(RatInt(green.val), alpha.val)),
                           Truncate(RatMul(RatInt(blue.val), alpha.val)),
                           Truncate(RatMul(RatInt(255), alpha.val)))
             ELSE NewColor(red.val, green.val, blue.val,
                           Truncate(RatAdd(RatMul(RatInt(255), alpha.val), Rat(1, 2))))

\* the rgba branch of parseColor
parseRGBA(toks, defVal, multiplyAlpha) ==
    IF Len(toks) # 4 THEN defVal
    ELSE LET red == stoi(toks[1])
             green == stoi(toks[2])
             blue == stoi(toks[3])
             alpha == stod(toks[4])
         IN  IF ~red.ok \/ ~green.ok \/ ~blue.ok \/ ~alpha.ok THEN Thrown
             ELSE IF multiplyAlpha
             THEN NewColor(Truncate(RatMul(RatInt(red.val), alpha.val)),
                           Truncate(RatMul(RatInt(green.val), alpha.val)),
                           Truncate(RatMul(RatInt(blue.val), alpha.val)),
                           Truncate(RatMul(RatInt(255), alpha.val)))
             ELSE NewColor(red.val, green.val, blue.val,
                           Truncate(RatMul(RatInt(255), alpha.val)))

\* the rgb branch of parseColor
parseRGB(toks, defVal) ==
    IF Len(toks) # 3 THEN defVal
    ELSE LET red == stoi(toks[1])
             green == stoi(toks[2])
             blue == stoi(toks[3])
         IN  IF ~red.ok \/ ~green.ok \/ ~blue.ok THEN Thrown
             ELSE NewColor(red.val, green.val, blue.val, 255)

\* the hsl and hsla branches of parseColor
parseHSL(toks, defVal) ==
    IF Len(toks) # 3 THEN defVal
    ELSE LET hue == stoi(toks[1])
             sat == stoi(toks[2])
             light == stoi(toks[3])
         IN  IF ~hue.ok \/ ~sat.ok \/ ~light.ok THEN Thrown
             ELSE NewHSLColor(hue.val, sat.val, light.val, RatInt(1), FALSE)
parseHSLA(toks, defVal, multiplyAlpha) ==
    IF Len(toks) # 4 THEN defVal
    ELSE LET hue == stoi(toks[1])
             sat == stoi(toks[2])
             light == stoi(toks[3])
             alpha == stod(toks[4])
         IN  IF ~hue.ok \/ ~sat.ok \/ ~light.ok \/ ~alpha.ok THEN Thrown
             ELSE NewHSLColor(hue.val, sat.val, light.val, alpha.val, multiplyAlpha)

\* parseColor(str, inName, defVal, multiplyAlpha)
parseColor(str, defVal, multiplyAlpha) ==
    IF Len(str) = 0 THEN defVal
    ELSE IF str[1] = "#" THEN parseHex(str, defVal, multiplyAlpha)
    ELSE IF StartsWith(str, <<"r", "g", "b", "(">>)
         THEN parseRGB(colorTokens(SubSeq(str, 5, Len(str)), 1), defVal)
    ELSE IF StartsWith(str, <<"r", "g", "b", "a", "(">>)
         THEN parseRGBA(colorTokens(SubSeq(str, 6, Len(str)), 1), defVal, multiplyAlpha)
    ELSE IF StartsWith(str, <<"h", "s", "l", "(">>)
         THEN parseHSL(colorTokens(SubSeq(str, 5, Len(str)), 1), defVal)
    ELSE IF StartsWith(str, <<"h", "s", "l", "a", "(">>)
         THEN parseHSLA(colorTokens(SubSeq(str, 6, Len(str)), 1), defVal, multiplyAlpha)
    ELSE defVal

\* a color string, a default and the alpha mode of a call to come
InitColor ==
    /\ styleDict = <<>>
    /\ baseDrawPriority = 0
    /\ parsed = FALSE
    /\ layers = EmptySet.layers
    /\ layersByName = EmptySet.layersByName
    /\ layersByUUID = EmptySet.layersByUUID
    /\ layersBySource = EmptySet.layersBySource
    /\ currentID = EmptySet.currentID
    /\ ret = NoRet
    /\ fstops = IdleStops
    /\ zret = IdleZret
    /\ calls = IdleCalls
    /\ textField = IdleText.str
    /\ featureAttrs = IdleText.attrs
    /\ field = IdleText.field
    /\ text = IdleText.text
    /\ colorArgs \in [str : ColorStrings, defVal : {NullColorRef, DefaultColorRef},
                      multiplyAlpha : BOOLEAN]
    /\ colorRet = IdleColor.ret
    /\ styleEntry = IdleTrans.styleEntry
    /\ trans = IdleTrans.trans
    /\ resolveArgs = IdleResolve.args
    /\ resolveRet = IdleResolve.ret

\* a call of parseColor
ParseColor ==
    /\ colorRet = IdleColor.ret
    /\ colorRet' = parseColor(colorArgs.str, colorArgs.defVal, colorArgs.multiplyAlpha)
    /\ UNCHANGED <<setVars, stopVars, calls, textVars, colorArgs, transVars, resolveVars>>

NextColor == ParseColor

SpecColor == InitColor /\ [][NextColor]_vars


-----------------------------------------------------------------------------
(* Properties of parseColor *)

\* '#' followed by n hex digits
IsHexForm(str, n) ==
    /\ Len(str) = n + 1
    /\ str[1] = "#"
    /\ \A i \in 2..Len(str) : str[i] \in HexDigits

\* the long form of a short form: every digit written twice
RECURSIVE TwiceEach(_)
TwiceEach(ds) ==
    IF Len(ds) = 0 THEN <<>> ELSE <<ds[1], ds[1]>> \o TwiceEach(Tail(ds))
LongForm(str) == <<"#">> \o TwiceEach(Tail(str))

\* the byte two hex digits write
ByteOf(hi, lo) == 16 * HexValue[hi] + HexValue[lo]

\* C15: parseColor of "#rgb" ("#rgba") equals parseColor of "#rrggbb"
\* ("#rrggbbaa") for both values of multiplyAlpha; the channels are red,
\* green, blue, alpha in this order, and alpha is 255 for a form without one.
C15_ShortEqualsLong ==
    LET str == colorArgs.str
        defVal == colorArgs.defVal
        m == colorArgs.multiplyAlpha
    IN  /\ (IsHexForm(str, 3) \/ IsHexForm(str, 4)) =>
             LET short == parseColor(str, defVal, m)
                 long == parseColor(LongForm(str), defVal, m)
             IN  /\ short.ref = "new"
                 /\ short = long
                 /\ colorRet # IdleColor.ret => colorRet = long
                 /\ IsHexForm(str, 3) =>
                      short.rgba = <<ByteOf(str[2], str[2]), ByteOf(str[3], str[3]),
                                     ByteOf(str[4], str[4]), 255>>
                 /\ (IsHexForm(str, 4) /\ ~m) =>
                      short.rgba = <<ByteOf(str[2], str[2]), ByteOf(str[3], str[3]),
                                     ByteOf(str[4], str[4]), ByteOf(str[5], str[5])>>
        /\ (IsHexForm(str, 6) /\ colorRet # IdleColor.ret) =>
             colorRet.rgba = <<ByteOf(str[2], str[3]), ByteOf(str[4], str[5]),
                               ByteOf(str[6], str[7]), 255>>
        /\ (IsHexForm(str, 8) /\ ~m /\ colorRet # IdleColor.ret) =>
             colorRet.rgba = <<ByteOf(str[2], str[3]), ByteOf(str[4], str[5]),
                               ByteOf(str[6], str[7]), ByteOf(str[8], str[9])>>

\* C15 witness: "#3c80" was parsed without alpha multiplication and gave
\* red 0x33, green 0xcc, blue 0x88, alpha 0
C15_Witness ==
    /\ colorArgs.str = <<"#", "3", "c", "8", "0">>
    /\ ~colorArgs.multiplyAlpha
    /\ colorRet = [ref |-> "new", rgba |-> <<51, 204, 136, 0>>]

\* the numbers the components of the function forms write, as fractions
IntComponents == {<<"1">>, <<"2">>, <<"3">>}
UnitComponents == {<<"1">>, <<"0", ".", "5">>, <<"0", ".", "2", "5">>}
ComponentValue(c) ==
    IF c = <<"1">> THEN <<1, 1>>
    ELSE IF c = <<"2">> THEN <<2, 1>>
    ELSE IF c = <<"3">> THEN <<3, 1>>
    ELSE IF c = <<"0", ".", "5">> THEN <<1, 2>>
    ELSE <<1, 4>>

\* the string "rgba(r,g,b,a)"
RGBAString(r, g, b, a) ==
    <<"r", "g", "b", "a", "(">> \o r \o <<",">> \o g \o <<",">> \o b \o <<",">> \o a
        \o <<")">>

\* the nearest integer to 255 * a, and 255 * a cut to an integer
Rounded255(a) == (2 * 255 * a[1] + a[2]) \div (2 * a[2])
Cut255(a) == (255 * a[1]) \div a[2]

\* C16 as stated: parseColor of "rgba(r,g,b,a)" with multiplyAlpha = false
\* returns red r, green g, blue b and alpha a*255 rounded to the nearest
\* integer; 128 for "rgba(1,2,3,0.5)".
C16_AsStated ==
    \A r \in IntComponents, g \in IntComponents, b \in IntComponents, a \in UnitComponents :
        (/\ colorArgs.str = RGBAString(r, g, b, a)
         /\ ~colorArgs.multiplyAlpha
         /\ colorRet # IdleColor.ret) =>
          colorRet = [ref |-> "new",
                      rgba |-> <<ComponentValue(r)[1], ComponentValue(g)[1],
                                 ComponentValue(b)[1], Rounded255(ComponentValue(a))>>]

\* C16 amended: parseColor of "rgba(r,g,b,a)" with multiplyAlpha = false
\* returns red r, green g, blue b and an 8-bit alpha equal to a*255 cut to
\* an integer (rounded toward zero); 127 for "rgba(1,2,3,0.5)".
C16_Amended ==
    /\ \A r \in IntComponents, g \in IntComponents, b \in IntComponents,
          a \in UnitComponents :
         (/\ colorArgs.str = RGBAString(r, g, b, a)
          /\ ~colorArgs.multiplyAlpha
          /\ colorRet # IdleColor.ret) =>
           colorRet = [ref |-> "new",
                       rgba |-> <<ComponentValue(r)[1], ComponentValue(g)[1],
                                  ComponentValue(b)[1], Cut255(ComponentValue(a))>>]
    /\ parseColor(RGBAString(<<"1">>, <<"2">>, <<"3">>, <<"0", ".", "5">>),
                  colorArgs.defVal, FALSE).rgba = <<1, 2, 3, 127>>

\* C16 witness: "rgba(1,2,3,0.5)" was parsed without alpha multiplication
\* and gave alpha 127
C16_Witness ==
    /\ colorArgs.str = RGBAString(<<"1">>, <<"2">>, <<"3">>, <<"0", ".", "5">>)
    /\ ~colorArgs.multiplyAlpha
    /\ colorRet = [ref |-> "new", rgba |-> <<1, 2, 3, 127>>]

\* a well-formed color string: a hex form of 3, 4, 6 or 8 digits, or a
\* function form with its numbers between commas and a closing parenthesis
WellFormed(str) ==
    \/ \E n \in {3, 4, 6, 8} : IsHexForm(str, n)
    \/ \E pre \in {<<"r", "g", "b", "(">>, <<"h", "s", "l", "(">>} :
         \E r \in IntComponents, g \in IntComponents, b \in IntComponents :
             str = pre \o r \o <<",">> \o g \o <<",">> \o b \o <<")">>
    \/ \E pre \in {<<"r", "g", "b", "a", "(">>, <<"h", "s", "l", "a", "(">>} :
         \E r \in IntComponents, g \in IntComponents, b \in IntComponents,
            a \in UnitComponents :
             str = pre \o r \o <<",">> \o g \o <<",">> \o b \o <<",">> \o a \o <<")">>

\* C17 as stated: for every string that is not a well-formed instance of an
\* accepted form, a non-numeric component inside rgb()/rgba()/hsl()/hsla()
\* included, parseColor returns the caller's default and nothing is thrown.
C17_AsStated ==
    (colorRet # IdleColor.ret /\ ~WellFormed(colorArgs.str)) =>
      colorRet = colorArgs.defVal


-----------------------------------------------------------------------------
(* Property resolvers: transDouble, transColor, transText, and the parse of *)
(* a stop function they rest on.  A dictionary entry is a record            *)
(* [type, num, str, base, stops]; type "none" is the entry that is absent.  *)

\* the longest stops array of a nested object
MaxStopEntries == 3

\* the entries of a stops array: [zoom, number], [zoom, string], an array of
\* one element, an entry that is no array, [zoom, true]
StopEntry(type, size, zoom, vtype, num, str) ==
    [type |-> type, size |-> size, zoom |-> zoom, vtype |-> vtype, num |-> num,
     str |-> str, color |-> <<>>]
StopEntries ==
    {StopEntry("array", 2, z, "double", 30, <<>>) : z \in {0, 5}}
    \cup {StopEntry("array", 2, z, "string", 0, <<"#", "f", "0", "0">>) : z \in {0, 5}}
    \cup {StopEntry("array", 2, z, "string", 0, <<"n", " ", "{", "n", "}">>) : z \in {0, 5}}
    \cup {StopEntry("array", 1, 0, "none", 0, <<>>),
          StopEntry("double", 0, 0, "none", 0, <<>>),
          StopEntry("array", 2, 5, "bool", 0, <<>>),
          [StopEntry("array", 2, 5, "object", 0, <<>>) EXCEPT !.color = <<0, 0, 255, 255>>]}

\* the entries a resolver finds under the property's name
DictEntry(type, num, str, base, stops) ==
    [type |-> type, num |-> num, str |-> str, base |-> base, stops |-> stops]
\* the base of an entry that has none, and Dictionary::getDouble(name, defVal)
NoBase == <<>>
getDouble(num, defVal) == IF num = NoBase THEN defVal ELSE num[1]
NoEntry == DictEntry("none", 0, <<>>, NoBase, <<>>)
ScalarEntries ==
    {DictEntry("double", 30, <<>>, NoBase, <<>>),
     DictEntry("int", 100, <<>>, NoBase, <<>>),
     DictEntry("string", 0, <<"#", "f", "0", "0">>, NoBase, <<>>),
     DictEntry("string", 0, <<"r", "e", "d">>, NoBase, <<>>),
     DictEntry("string", 0, <<"r", "g", "b", "(", "x", ",", "1", ",", "2", ")">>, NoBase, <<>>),
     DictEntry("array", 0, <<>>, NoBase, <<>>),
     DictEntry("bool", 0, <<>>, NoBase, <<>>)}
ObjectEntries ==
    {DictEntry("dict", 0, <<>>, b, q) :
        b \in {NoBase} \cup {<<x>> : x \in Bases},
        q \in SeqsUpTo(StopEntries, MaxStopEntries)}
TransEntries == {NoEntry} \cup ScalarEntries \cup ObjectEntries

\* the defaults callers hand to the resolvers
DoubleDefaults == {1}
ColorDefaults == {NullColorRef, DefaultColorRef}
TextDefaults == {<<>>, <<"n">>}

\* MapboxVectorStyleSetImpl::colorValue(name, val, nullptr, defVal, multiplyAlpha)
colorValue(thing, defVal, multiplyAlpha) ==
    IF thing.type = "none" THEN defVal
    ELSE IF thing.type # "string" THEN defVal
    ELSE parseColor(thing.str, defVal, multiplyAlpha)

\* the loop of MaplyVectorFunctionStops::parse over the stops array from
\* its k-th entry on: what it returns and the stops it has pushed
RECURSIVE parseStopEntries(_, _, _, _)
parseStopEntries(dataArray, k, isText, stops) ==
    IF k > Len(dataArray) THEN [ok |-> TRUE, stops |-> stops]
    ELSE LET stop == dataArray[k]
         IN  IF stop.type # "array" THEN [ok |-> FALSE, stops |-> stops]
             ELSE IF stop.size # 2 THEN [ok |-> FALSE, stops |-> stops]
             ELSE IF stop.vtype \in {"double", "int"}
             THEN parseStopEntries(dataArray, k + 1, isText,
                      Append(stops, [NewStop EXCEPT !.zoom = stop.zoom, !.val = stop.num]))
             ELSE IF stop.vtype = "string"
             THEN parseStopEntries(dataArray, k + 1, isText,
                      Append(stops,
                          IF isText
                          THEN [NewStop EXCEPT !.zoom = stop.zoom,
                                    !.textField = MapboxRegexField_parse(NoText, stop.str)]
                          ELSE [NewStop EXCEPT !.zoom = stop.zoom,
                                    !.color = colorValue(
                                        DictEntry("string", 0, stop.str, NoBase, <<>>),
                                        NullColorRef, FALSE).rgba]))
             ELSE IF stop.vtype = "object"
             THEN parseStopEntries(dataArray, k + 1, isText,
                      Append(stops, [NewStop EXCEPT !.zoom = stop.zoom, !.color = stop.color]))
             ELSE [ok |-> FALSE, stops |-> stops]

\* MaplyVectorFunctionStops::parse without the test of dataArray.size()
MaplyVectorFunctionStops_parse_noSizeTest(entry, isText, kind) ==
    LET r == parseStopEntries(entry.stops, 1, isText, <<>>)
    IN  [ok |-> r.ok, f |-> [base |-> getDouble(entry.base, 1), kind |-> kind,
                             stops |-> r.stops]]

\* MaplyVectorFunctionStops::parse(entry, styleSet, isText) on a new object:
\* what it returns and the object it leaves
MaplyVectorFunctionStops_parse(entry, isText, kind) ==
    IF Len(entry.stops) < 2
    THEN [ok |-> FALSE, f |-> [base |-> getDouble(entry.base, 1), kind |-> kind, stops |-> <<>>]]
    ELSE LET r == parseStopEntries(entry.stops, 1, isText, <<>>)
         IN  [ok |-> r.ok, f |-> [base |-> getDouble(entry.base, 1), kind |-> kind,
                                  stops |-> r.stops]]

\* what a resolver returns: a null reference, a property with a constant, a
\* property backed by a stop function, or an exception on its way out
TransResult(fn, ref, num, color, txt, f) ==
    [fn |-> fn, ref |-> ref, num |-> num, color |-> color, textField |-> txt,
     stops |-> f]
NullTrans(fn) == TransResult(fn, "null", 0, NullColorRef, NoText, NoStops)
ThrownTrans(fn) == TransResult(fn, "throw", 0, NullColorRef, NoText, NoStops)
StopsTrans(fn, f) == TransResult(fn, "stops", 0, NullColorRef, NoText, f)

\* transDouble with `if (stops->parse(...))` as the other two have it
transDouble_checked(theEntry, defVal) ==
    IF theEntry.type = "none"
    THEN TransResult("transDouble", "value", defVal, NullColorRef, NoText, NoStops)
    ELSE IF theEntry.type = "dict"
    THEN LET r == MaplyVectorFunctionStops_parse(theEntry, FALSE, "num")
         IN  IF r.ok THEN StopsTrans("transDouble", r.f) ELSE NullTrans("transDouble")
    ELSE IF theEntry.type \in {"double", "int"}
    THEN TransResult("transDouble", "value", theEntry.num, NullColorRef, NoText, NoStops)
    ELSE NullTrans("transDouble")

\* MapboxVectorStyleSetImpl::transDouble(theEntry, defVal)
transDouble(theEntry, defVal) ==
    IF theEntry.type = "none"
    THEN TransResult("transDouble", "value", defVal, NullColorRef, NoText, NoStops)
    ELSE IF theEntry.type = "dict"
    THEN StopsTrans("transDouble", MaplyVectorFunctionStops_parse(theEntry, FALSE, "num").f)
    ELSE IF theEntry.type \in {"double", "int"}
    THEN TransResult("transDouble", "value", theEntry.num, NullColorRef, NoText, NoStops)
    ELSE NullTrans("transDouble")

\* MapboxVectorStyleSetImpl::transColor(valName, entry, defVal)
transColor(theEntry, defVal) ==
    IF theEntry.type = "none"
    THEN IF defVal.ref # "null"
         THEN TransResult("transColor", "value", 0, defVal, NoText, NoStops)
         ELSE NullTrans("transColor")
    ELSE IF theEntry.type = "dict"
    THEN LET r == MaplyVectorFunctionStops_parse(theEntry, FALSE, "color")
         IN  IF r.ok THEN StopsTrans("transColor", r.f) ELSE NullTrans("transColor")
    ELSE IF theEntry.type = "string"
    THEN LET color == colorValue(theEntry, defVal, FALSE)
         IN  IF color = Thrown THEN ThrownTrans("transColor")
             ELSE IF color.ref # "null"
             THEN TransResult("transColor", "value", 0, color, NoText, NoStops)
             ELSE NullTrans("transColor")
    ELSE NullTrans("transColor")

\* MapboxVectorStyleSetImpl::transText(inName, entry, str)
transText(theEntry, str) ==
    IF theEntry.type = "none"
    THEN IF str = <<>> THEN NullTrans("transText")
         ELSE TransResult("transText", "value", 0, NullColorRef,
                          MapboxRegexField_parse(NoText, str), NoStops)
    ELSE IF theEntry.type = "dict"
    THEN LET r == MaplyVectorFunctionStops_parse(theEntry, TRUE, "text")
         IN  IF r.ok THEN StopsTrans("transText", r.f) ELSE NullTrans("transText")
    ELSE IF theEntry.type = "string"
    THEN TransResult("transText", "value", 0, NullColorRef,
                     MapboxRegexField_parse(NoText, theEntry.str), NoStops)
    ELSE NullTrans("transText")

\* the zoom levels properties are evaluated at
TransZooms == {0, 2, 5, 7}

\* what a read of stops[0] of an empty stops vector can give
UndefinedReads == {Crash, RatInt(0), RatInt(30)}

\* the entry a resolver is about to be called on
InitTrans ==
    /\ styleDict = <<>>
    /\ baseDrawPriority = 0
    /\ parsed = FALSE
    /\ layers = EmptySet.layers
    /\ layersByName = EmptySet.layersByName
    /\ layersByUUID = EmptySet.layersByUUID
    /\ layersBySource = EmptySet.layersBySource
    /\ currentID = EmptySet.currentID
    /\ ret = NoRet
    /\ fstops = IdleStops
    /\ zret = IdleZret
    /\ calls = IdleCalls
    /\ textField = IdleText.str
    /\ featureAttrs = IdleText.attrs
    /\ field = IdleText.field
    /\ text = IdleText.text
    /\ colorArgs = IdleColor.args
    /\ colorRet = IdleColor.ret
    /\ styleEntry \in TransEntries
    /\ trans = IdleTrans.trans
    /\ resolveArgs = IdleResolve.args
    /\ resolveRet = IdleResolve.ret

\* the three resolvers, each with a default of the caller's; the default is
\* kept with the result
TransDouble ==
    /\ trans.fn = "none"
    /\ \E defVal \in DoubleDefaults :
         trans' = [r |-> transDouble(styleEntry, defVal),
                   fn |-> "transDouble",
                   absent |-> transDouble(NoEntry, defVal)]
    /\ UNCHANGED <<setVars, stopVars, calls, textVars, colorVars, styleEntry, resolveVars>>

TransColor ==
    /\ trans.fn = "none"
    /\ \E defVal \in ColorDefaults :
         trans' = [r |-> transColor(styleEntry, defVal),
                   fn |-> "transColor",
                   absent |-> transColor(NoEntry, defVal)]
    /\ UNCHANGED <<setVars, stopVars, calls, textVars, colorVars, styleEntry, resolveVars>>

TransText ==
    /\ trans.fn = "none"
    /\ \E str \in TextDefaults :
         trans' = [r |-> transText(styleEntry, str),
                   fn |-> "transText",
                   absent |-> transText(NoEntry, str)]
    /\ UNCHANGED <<setVars, stopVars, calls, textVars, colorVars, styleEntry, resolveVars>>

\* MapboxTransDouble::valForZoom on the property a resolver returned
ValForZoom ==
    /\ trans.fn = "transDouble"
    /\ trans.r.ref \in {"value", "stops"}
    /\ zret.fn = "none"
    /\ \E zoom \in TransZooms :
         \E undefined \in UndefinedReads :
           zret' = [fn |-> "valForZoom", zoom |-> zoom,
                    val |-> IF trans.r.ref = "value" THEN RatInt(trans.r.num)
                            ELSE IF Len(trans.r.stops.stops) = 0 THEN undefined
                            ELSE valueForZoom(trans.r.stops, zoom)]
    /\ UNCHANGED <<setVars, fstops, calls, leafVars>>

\* MapboxTransColor::colorForZoom on the property a resolver returned
TransColorForZoom ==
    /\ trans.fn = "transColor"
    /\ trans.r.ref \in {"value", "stops"}
    /\ zret.fn = "none"
    /\ \E zoom \in TransZooms :
         zret' = [fn |-> "colorForZoom", zoom |-> zoom,
                  val |-> IF trans.r.ref = "value" THEN trans.r.color.rgba
                          ELSE LET c == colorForZoom(trans.r.stops, zoom)
                               IN  IF c = NoColor THEN Crash ELSE c]
    /\ UNCHANGED <<setVars, fstops, calls, leafVars>>

\* MapboxTransText::textForZoom on the property a resolver returned
TransTextForZoom ==
    /\ trans.fn = "transText"
    /\ trans.r.ref \in {"value", "stops"}
    /\ zret.fn = "none"
    /\ \E zoom \in TransZooms :
         zret' = [fn |-> "textForZoom", zoom |-> zoom,
                  val |-> IF trans.r.ref = "value" THEN trans.r.textField
                          ELSE textForZoom(trans.r.stops, zoom)]
    /\ UNCHANGED <<setVars, fstops, calls, leafVars>>

\* MaplyVectorFunctionStops::parse on a new object, for a nested object
ParseStops ==
    /\ styleEntry.type = "dict"
    /\ trans.fn = "none"
    /\ ret.op = "none"
    /\ \E kind \in {"num", "color", "text"} :
         LET r == MaplyVectorFunctionStops_parse(styleEntry, kind = "text", kind)
         IN  /\ fstops' = r.f
             /\ ret' = [op |-> "MaplyVectorFunctionStops::parse", val |-> r.ok]
    /\ UNCHANGED <<styleDict, baseDrawPriority, parsed, layers, layersByName,
                   layersByUUID, layersBySource, currentID, zret, calls, leafVars>>

NextTrans ==
    \/ ParseStops
    \/ TransDouble
    \/ TransColor
    \/ TransText
    \/ ValForZoom
    \/ TransColorForZoom
    \/ TransTextForZoom

SpecTrans == InitTrans /\ [][NextTrans]_vars


-----------------------------------------------------------------------------
(* Properties of the property resolvers *)

\* a nested object that does not parse as a stop function: stops missing or
\* fewer than two, an entry that is no array or has not two elements, a
\* value of an unsupported type
FailsToParse(entry) ==
    \/ Len(entry.stops) < 2
    \/ \E k \in 1..Len(entry.stops) :
         \/ entry.stops[k].type # "array"
         \/ entry.stops[k].size # 2
         \/ entry.stops[k].vtype \notin {"double", "int", "string", "object"}

\* C18 as stated: a resolver given a nested object that fails to parse as a
\* stop function returns a null or default value, never a property backed by
\* the failed stop function.
C18_AsStated ==
    (trans.fn # "none" /\ styleEntry.type = "dict" /\ FailsToParse(styleEntry)) =>
      trans.r.ref # "stops"

\* C19 as stated: every stop function behind a property a resolver returned
\* holds at least two stops, so the evaluators never run on fewer.
C19_AsStated ==
    (trans.fn # "none" /\ trans.r.ref = "stops") =>
      Len(trans.r.stops.stops) >= 2

\* the scalar type a resolver expects
ExpectedScalars(fn) ==
    IF fn = "transDouble" THEN {"double", "int"} ELSE {"string"}

\* C20 as stated: a resolver given an entry that is present but neither a
\* nested object nor a scalar of the expected type returns the caller's
\* default, the result it returns for an absent entry.
C20_AsStated ==
    (/\ trans.fn # "none"
     /\ styleEntry.type \notin {"none", "dict"}
     /\ styleEntry.type \notin ExpectedScalars(trans.fn)) =>
      trans.r = trans.absent


-----------------------------------------------------------------------------
(* resolveColor: a color property and an opacity property brought together. *)
(* A color property is [ref, color, stops, useAlphaOverride, alpha], an     *)
(* opacity property [ref, val, stops]; ref is "null", "value" or "stops".   *)

\* the color and opacity properties of the model
ColorProp(ref, color, f, useAlphaOverride, alpha) ==
    [ref |-> ref, color |-> color, stops |-> f, useAlphaOverride |-> useAlphaOverride,
     alpha |-> alpha]
NullColorProp == ColorProp("null", NoColor, NoStops, FALSE, RatInt(1))
ResolveColorStops ==
    [base |-> 2, kind |-> "color",
     stops |-> <<[NewStop EXCEPT !.zoom = 0, !.color = <<0, 0, 0, 255>>],
                 [NewStop EXCEPT !.zoom = 10, !.color = <<255, 51, 0, 102>>]>>]
AlphaOverrides == {Rat(1, 4), Rat(1, 2), RatInt(1)}
ColorProps ==
    {NullColorProp}
    \cup {ColorProp("value", c, NoStops, FALSE, RatInt(1)) :
             c \in {<<255, 51, 0, 102>>, <<10, 20, 30, 255>>}}
    \cup {ColorProp("stops", NoColor, ResolveColorStops, FALSE, RatInt(1))}

NullDoubleProp == DoubleProp("null", RatInt(0), NoStops)
ResolveOpacityStops ==
    [base |-> 1, kind |-> "num",
     stops |-> <<[NewStop EXCEPT !.zoom = 0, !.val = 0],
                 [NewStop EXCEPT !.zoom = 10, !.val = 1]>>]
OpacityProps ==
    {NullDoubleProp}
    \cup {DoubleProp("value", o, NoStops) : o \in {RatInt(0), Rat(1, 2), Rat(3, 4), RatInt(1)}}
    \cup {DoubleProp("stops", RatInt(0), ResolveOpacityStops)}

ResolveModes == {"MBResolveColorOpacityMultiply", "MBResolveColorOpacityReplaceAlpha",
                 "MBResolveColorOpacityComposeAlpha"}
ResolveZooms == {0, 5, 10}

\* MapboxTransColor::setAlphaOverride
setAlphaOverride(color, alphaOverride) ==
    [color EXCEPT !.useAlphaOverride = TRUE, !.alpha = alphaOverride]

\* MapboxTransColor::colorForZoom: the RGBAColor, or Crash for the
\* dereference of a missing color
MapboxTransColor_colorForZoom(color, zoom) ==
    LET theColor == IF color.ref = "stops" THEN colorForZoom(color.stops, zoom)
                    ELSE color.color
    IN  IF theColor = NoColor \/ theColor = Crash THEN Crash
        ELSE IF color.useAlphaOverride
        THEN [theColor EXCEPT ![4] = Truncate(RatMul(color.alpha, RatInt(255))) % 256]
        ELSE theColor

\* RGBAColor::asUnitFloats: every channel over 255
asUnitFloats(rgba) == [ii \in 1..4 |-> Rat(rgba[ii], 255)]

\* the RGBAColor made of four floats: each cut to 8 bits
ColorOfFloats(r, g, b, a) ==
    [ref |-> "new", rgba |-> <<Truncate(r) % 256, Truncate(g) % 256,
                               Truncate(b) % 256, Truncate(a) % 256>>]

\* resolveColor without the test of the alpha override
resolveColor_overrideIgnored(color, opacity, zoom, resolveMode) ==
    IF color.ref = "null" THEN NullColorRef
    ELSE LET thisColor == MapboxTransColor_colorForZoom(color, zoom)
         IN  IF thisColor = Crash THEN [ref |-> "crash", rgba |-> <<>>]
             ELSE IF opacity.ref = "null"
             THEN [ref |-> "new", rgba |-> thisColor]
             ELSE LET thisOpacity ==
                          RatMul(MapboxTransDouble_valForZoom(opacity, zoom), RatInt(255))
                      vals == asUnitFloats(thisColor)
                  IN  IF resolveMode = "MBResolveColorOpacityMultiply"
                      THEN ColorOfFloats(RatMul(vals[1], thisOpacity),
                                         RatMul(vals[2], thisOpacity),
                                         RatMul(vals[3], thisOpacity),
                                         RatMul(vals[4], thisOpacity))
                      ELSE IF resolveMode = "MBResolveColorOpacityReplaceAlpha"
                      THEN ColorOfFloats(RatMul(vals[1], RatInt(255)),
                                         RatMul(vals[2], RatInt(255)),
                                         RatMul(vals[3], RatInt(255)), thisOpacity)
                      ELSE ColorOfFloats(RatMul(vals[1], RatInt(255)),
                                         RatMul(vals[2], RatInt(255)),
                                         RatMul(vals[3], RatInt(255)),
                                         RatMul(vals[4], thisOpacity))

\* resolveColor whose compose-alpha mode sets the alpha as replace-alpha does
resolveColor_composeReplaces(color, opacity, zoom, resolveMode) ==
    IF color.ref = "null" THEN NullColorRef
    ELSE LET thisColor == MapboxTransColor_colorForZoom(color, zoom)
         IN  IF thisColor = Crash THEN [ref |-> "crash", rgba |-> <<>>]
             ELSE IF opacity.ref = "null" \/ color.useAlphaOverride
             THEN [ref |-> "new", rgba |-> thisColor]
             ELSE LET thisOpacity ==
                          RatMul(MapboxTransDouble_valForZoom(opacity, zoom), RatInt(255))
                      vals == asUnitFloats(thisColor)
                  IN  IF resolveMode = "MBResolveColorOpacityMultiply"
                      THEN ColorOfFloats(RatMul(vals[1], thisOpacity),
                                         RatMul(vals[2], thisOpacity),
                                         RatMul(vals[3], thisOpacity),
                                         RatMul(vals[4], thisOpacity))
                      ELSE ColorOfFloats(RatMul(vals[1], RatInt(255)),
                                         RatMul(vals[2], RatInt(255)),
                                         RatMul(vals[3], RatInt(255)), thisOpacity)

\* MapboxVectorStyleSetImpl::resolveColor(color, opacity, zoom, resolveMode)
resolveColor(color, opacity, zoom, resolveMode) ==
    IF color.ref = "null" THEN NullColorRef
    ELSE LET thisColor == MapboxTransColor_colorForZoom(color, zoom)
         IN  IF thisColor = Crash THEN [ref |-> "crash", rgba |-> <<>>]
             ELSE IF opacity.ref = "null" \/ color.useAlphaOverride
             THEN [ref |-> "new", rgba |-> thisColor]
             ELSE LET thisOpacity ==
                          RatMul(MapboxTransDouble_valForZoom(opacity, zoom), RatInt(255))
                      vals == asUnitFloats(thisColor)
                  IN  IF resolveMode = "MBResolveColorOpacityMultiply"
                      THEN ColorOfFloats(RatMul(vals[1], thisOpacity),
                                         RatMul(vals[2], thisOpacity),
                                         RatMul(vals[3], thisOpacity),
                                         RatMul(vals[4], thisOpacity))
                      ELSE IF resolveMode = "MBResolveColorOpacityReplaceAlpha"
                      THEN ColorOfFloats(RatMul(vals[1], RatInt(255)),
                                         RatMul(vals[2], RatInt(255)),
                                         RatMul(vals[3], RatInt(255)), thisOpacity)
                      ELSE ColorOfFloats(RatMul(vals[1], RatInt(255)),
                                         RatMul(vals[2], RatInt(255)),
                                         RatMul(vals[3], RatInt(255)),
                                         RatMul(vals[4], thisOpacity))

\* a color property, an opacity property, a zoom and a mode
InitResolve ==
    /\ styleDict = <<>>
    /\ baseDrawPriority = 0
    /\ parsed = FALSE
    /\ layers = EmptySet.layers
    /\ layersByName = EmptySet.layersByName
    /\ layersByUUID = EmptySet.layersByUUID
    /\ layersBySource = EmptySet.layersBySource
    /\ currentID = EmptySet.currentID
    /\ ret = NoRet
    /\ fstops = IdleStops
    /\ zret = IdleZret
    /\ calls = IdleCalls
    /\ textField = IdleText.str
    /\ featureAttrs = IdleText.attrs
    /\ field = IdleText.field
    /\ text = IdleText.text
    /\ colorArgs = IdleColor.args
    /\ colorRet = IdleColor.ret
    /\ styleEntry = IdleTrans.styleEntry
    /\ trans = IdleTrans.trans
    /\ resolveArgs \in [color : ColorProps, opacity : OpacityProps, zoom : ResolveZooms,
                        resolveMode : ResolveModes]
    /\ resolveRet = IdleResolve.ret

\* MapboxTransColor::setAlphaOverride on the color property
SetAlphaOverride ==
    /\ resolveArgs.color.ref # "null"
    /\ resolveRet = IdleResolve.ret
    /\ \E alphaOverride \in AlphaOverrides :
         resolveArgs' = [resolveArgs EXCEPT
                            !.color = setAlphaOverride(resolveArgs.color, alphaOverride)]
    /\ UNCHANGED <<setVars, stopVars, calls, textVars, colorVars, transVars, resolveRet>>

\* a call of resolveColor
ResolveColor ==
    /\ resolveRet = IdleResolve.ret
    /\ resolveRet' = resolveColor(resolveArgs.color, resolveArgs.opacity,
                                  resolveArgs.zoom, resolveArgs.resolveMode)
    /\ UNCHANGED <<setVars, stopVars, calls, textVars, colorVars, transVars, resolveArgs>>

NextResolve ==
    \/ SetAlphaOverride
    \/ ResolveColor

SpecResolve == InitResolve /\ [][NextResolve]_vars


\* the color property evaluated at the zoom, before any alpha override
ZoomColor ==
    IF resolveArgs.color.ref = "stops"
    THEN colorForZoom(resolveArgs.color.stops, resolveArgs.zoom)
    ELSE resolveArgs.color.color

\* the opacity property evaluated at the zoom
ZoomOpacity == MapboxTransDouble_valForZoom(resolveArgs.opacity, resolveArgs.zoom)

Resolved == resolveRet # IdleResolve.ret

\* the whole part of channel * o
Scaled(channel, o) == (channel * o[1]) \div o[2]

\* C21: a color property with an alpha override resolves to the same color
\* for every opacity property and every mode: red, green and blue of the
\* color at the zoom, and the override value times 255 cut to 8 bits as alpha.
C21_OverrideWins ==
    (Resolved /\ resolveArgs.color.useAlphaOverride)
        => /\ resolveRet = [ref |-> "new",
                            rgba |-> <<ZoomColor[1], ZoomColor[2], ZoomColor[3],
                                       Scaled(255, resolveArgs.color.alpha)>>]
           /\ \A opacity \in OpacityProps, resolveMode \in ResolveModes :
                  resolveColor(resolveArgs.color, opacity, resolveArgs.zoom, resolveMode)
                      = resolveRet

\* an override of one half over a color of another alpha, resolved with an
\* opacity property in multiply mode
C21_Witness ==
    /\ Resolved
    /\ resolveArgs.color.useAlphaOverride
    /\ resolveArgs.color.alpha = Rat(1, 2)
    /\ resolveArgs.opacity.ref = "value"
    /\ resolveArgs.opacity.val = Rat(3, 4)
    /\ resolveArgs.resolveMode = "MBResolveColorOpacityMultiply"
    /\ ZoomColor = <<255, 51, 0, 102>>
    /\ resolveRet.rgba = <<255, 51, 0, 127>>

\* C22: without an alpha override, a color (r, g, b, a) and an opacity o
\* resolve to (r*o, g*o, b*o, a*o) in multiply mode, (r, g, b, o*255) in
\* replace-alpha mode and (r, g, b, a*o) in compose-alpha mode; without an
\* opacity property the color comes back unchanged, without a color property
\* no color comes back.
C22_Modes ==
    (Resolved /\ ~resolveArgs.color.useAlphaOverride)
        => IF resolveArgs.color.ref = "null" THEN resolveRet = NullColorRef
           ELSE IF resolveArgs.opacity.ref = "null"
           THEN resolveRet = [ref |-> "new", rgba |-> ZoomColor]
           ELSE LET o == ZoomOpacity
                    c == ZoomColor
                IN  /\ resolveRet.ref = "new"
                    /\ resolveArgs.resolveMode = "MBResolveColorOpacityMultiply"
                         => resolveRet.rgba = <<Scaled(c[1], o), Scaled(c[2], o),
                                                Scaled(c[3], o), Scaled(c[4], o)>>
                    /\ resolveArgs.resolveMode = "MBResolveColorOpacityReplaceAlpha"
                         => resolveRet.rgba = <<c[1], c[2], c[3], Scaled(255, o)>>
                    /\ resolveArgs.resolveMode = "MBResolveColorOpacityComposeAlpha"
                         => resolveRet.rgba = <<c[1], c[2], c[3], Scaled(c[4], o)>>

\* compose-alpha of the color (255, 51, 0, 102) with the stop-backed opacity
\* halfway between its stops
C22_Witness ==
    /\ Resolved
    /\ ~resolveArgs.color.useAlphaOverride
    /\ resolveArgs.color.ref = "value"
    /\ resolveArgs.opacity.ref = "stops"
    /\ resolveArgs.zoom = 5
    /\ resolveArgs.resolveMode = "MBResolveColorOpacityComposeAlpha"
    /\ ZoomColor = <<255, 51, 0, 102>>
    /\ resolveRet.rgba = <<255, 51, 0, 51>>


-----------------------------------------------------------------------------
(* parse and the entries it cannot turn into layers *)

\* the layers of an index by source layer, in iteration order
SourceIndexEntries(mm) == [i \in 1..Len(mm) |-> <<mm[i][1], EntryOf(mm[i][2])>>]

\* the entries an index by name holds under each name
NameIndexEntries(m) == [k \in DOMAIN m |-> EntryOf(m[k])]

\* the document without the entries that parse builds no layer from
WellFormedOnly(doc) == SelectSeq(doc, Built)

\* C23: parse returns true, and every entry that a layer can be built from is
\* in the layer list and indexed (by its uuid; by its source layer when it has
\* one; by its name, where the last layer of a name is the one kept), however
\* many entries are not dictionaries or fail construction and wherever they
\* are: list and indices hold what they hold for the document without them.
C23_BadEntriesSkipped ==
    parsed =>
      /\ ret.op = "parse" => ret.val = TRUE
      /\ EntriesOf(layers) = WellFormedOnly(styleDict)
      /\ \A k \in 1..Len(layers) :
           LET layer == layers[k]
           IN  /\ layer.uuid \in DOMAIN layersByUUID
               /\ layersByUUID[layer.uuid] = layer
               /\ layer.ident \in DOMAIN layersByName
               /\ layersByName[layer.ident] = LastNamed(layers, layer.ident)
               /\ layer.sourceLayer # ""
                    => \E i \in 1..Len(layersBySource) :
                          layersBySource[i] = <<layer.sourceLayer, layer>>
      /\ LET clean == parse(EmptySet, WellFormedOnly(styleDict), baseDrawPriority)
         IN  /\ EntriesOf(clean.layers) = EntriesOf(layers)
             /\ NameIndexEntries(clean.layersByName) = NameIndexEntries(layersByName)
             /\ SourceIndexEntries(clean.layersBySource) = SourceIndexEntries(layersBySource)
             /\ Cardinality(DOMAIN clean.layersByUUID) = Cardinality(DOMAIN layersByUUID)

\* a document whose first entry is no dictionary and whose second fails
\* construction, with a fill layer behind them
C23_Witness ==
    /\ parsed
    /\ ret.op = "parse"
    /\ ret.val = TRUE
    /\ Len(styleDict) = 3
    /\ styleDict[1].kind = "notDict"
    /\ ~Built(styleDict[2]) /\ styleDict[2].kind # "notDict"
    /\ Len(layers) = 1
    /\ layers[1].variant = "fill"
    /\ Len(layersBySource) = 1


-----------------------------------------------------------------------------
(* The chunks of a template *)

\* templates long enough for two fields side by side
MaxFieldTemplateLen == 6
FieldTemplates == SeqsUpTo(Chars, MaxFieldTemplateLen)

\* a fresh MapboxRegexField and a template
InitTemplate ==
    /\ styleDict = <<>>
    /\ baseDrawPriority = 0
    /\ parsed = FALSE
    /\ layers = EmptySet.layers
    /\ layersByName = EmptySet.layersByName
    /\ layersByUUID = EmptySet.layersByUUID
    /\ layersBySource = EmptySet.layersBySource
    /\ currentID = EmptySet.currentID
    /\ ret = NoRet
    /\ fstops = IdleStops
    /\ zret = IdleZret
    /\ calls = IdleCalls
    /\ textField \in FieldTemplates
    /\ featureAttrs \in {[k \in {<<"n">>} |-> <<"A">>]}
    /\ field = IdleText.field
    /\ text = IdleText.text
    /\ colorArgs = IdleColor.args
    /\ colorRet = IdleColor.ret
    /\ styleEntry = IdleTrans.styleEntry
    /\ trans = IdleTrans.trans
    /\ resolveArgs = IdleResolve.args
    /\ resolveRet = IdleResolve.ret

NextTemplate ==
    \/ ParseField
    \/ Build

SpecTemplate == InitTemplate /\ [][NextTemplate]_vars

\* a template of text and of fields {key} with a key that is not empty:
\* every '{' is closed by the next delimiter, and no '}' stands alone
RECURSIVE BracesMatch(_, _, _)
BracesMatch(str, i, inField) ==
    IF i > Len(str) THEN ~inField
    ELSE IF str[i] = "{"
    THEN ~inField /\ i < Len(str) /\ str[i + 1] \notin {"{", "}"}
         /\ BracesMatch(str, i + 1, TRUE)
    ELSE IF str[i] = "}" THEN inField /\ BracesMatch(str, i + 1, FALSE)
    ELSE BracesMatch(str, i + 1, inField)

\* the fields and the runs of text of such a template, in its order: a pair
\* of "key" or "literal" and the characters
RECURSIVE Segments(_, _, _, _)
Segments(str, i, cur, acc) ==
    IF i > Len(str)
    THEN IF cur = <<>> THEN acc ELSE Append(acc, <<"literal", cur>>)
    ELSE IF str[i] = "{"
    THEN Segments(str, i + 1, <<>>,
                  IF cur = <<>> THEN acc ELSE Append(acc, <<"literal", cur>>))
    ELSE IF str[i] = "}" THEN Segments(str, i + 1, <<>>, Append(acc, <<"key", cur>>))
    ELSE Segments(str, i + 1, Append(cur, str[i]), acc)

\* the chunks of a field as such pairs; a key chunk shows its first key
ChunkSegments(f) ==
    [c \in 1..Len(f.chunks) |->
        IF f.chunks[c].keys # <<>> THEN <<"key", f.chunks[c].keys[1]>>
        ELSE <<"literal", f.chunks[c].str>>]

\* C24 as stated: parse yields one key chunk for every field in braces and
\* one literal chunk for every maximal run of text outside braces, in the
\* order of the template, also for fields side by side and for a template
\* that starts with a field.
C24_AsStated ==
    (field.valid /\ BracesMatch(textField, 1, FALSE))
        => ChunkSegments(field) = Segments(textField, 1, <<>>, <<>>)

\* the same for the templates in which no two fields are side by side
C24_Separated ==
    (/\ field.valid
     /\ BracesMatch(textField, 1, FALSE)
     /\ \A i \in 1..(Len(textField) - 1) : ~(textField[i] = "}" /\ textField[i + 1] = "{"))
        => ChunkSegments(field) = Segments(textField, 1, <<>>, <<>>)

\* "{n}{n}" parsed: a key chunk and then a literal chunk
C24_AdjacentFields ==
    /\ field.valid
    /\ textField = <<"{", "n", "}", "{", "n", "}">>
    /\ ChunkSegments(field) = <<<<"key", <<"n">>>>, <<"literal", <<"n">>>>>>

\* C25 as stated: a string without '{' that is not empty parses into exactly
\* one chunk, a literal, and the field is valid; the empty string parses
\* into no chunks.
C25_AsStated ==
    (field.valid /\ \A i \in 1..Len(textField) : textField[i] # "{")
        => IF textField = <<>> THEN field.chunks = <<>>
           ELSE /\ Len(field.chunks) = 1
                /\ field.chunks[1].keys = <<>>

\* the same for the strings that have no '}' either
C25_NoDelimiters ==
    (field.valid /\ \A i \in 1..Len(textField) : textField[i] \notin {"{", "}"})
        => IF textField = <<>> THEN field.chunks = <<>>
           ELSE field.chunks = <<TextChunk(textField, <<>>)>>

\* "n}n" parsed: a literal chunk and then a key chunk
C25_StrayBrace ==
    /\ field.valid
    /\ textField = <<"n", "}", "n">>
    /\ field.chunks = <<TextChunk(<<"n">>, <<>>), TextChunk(<<>>, <<<<"n">>>>)>>


-----------------------------------------------------------------------------
(* Properties of the parse of a stop function *)

\* an entry of a stops array that parse makes no stop of
BadStopEntry(e) ==
    \/ e.type # "array"
    \/ e.size # 2
    \/ e.vtype \notin {"double", "int", "string", "object"}

StopsParsed == ret.op = "MaplyVectorFunctionStops::parse"

C27_AsStated ==
    /\ (trans.fn = "transColor" /\ trans.r.ref = "stops")
         => \A k \in 1..Len(trans.r.stops.stops) : trans.r.stops.stops[k].color # NoColor
    /\ zret.fn = "colorForZoom" => zret.val # Crash

\* a stop-backed color property whose first stop value is a number, asked for
\* its color on that stop's level
C27_NumberStop ==
    /\ trans.fn = "transColor"
    /\ trans.r.ref = "stops"
    /\ styleEntry.stops[1].vtype = "double"
    /\ trans.r.stops.stops[1].color = NoColor
    /\ zret.fn = "colorForZoom"
    /\ zret.zoom = 0
    /\ zret.val = Crash


-----------------------------------------------------------------------------
(* Extrema of a numeric property *)

\* x <= y for two rationals
RatLeq(x, y) == x[1] * y[2] <= y[1] * x[2]

StopVals(f) == {f.stops[k].val : k \in 1..Len(f.stops)}

\* C28: for a numeric stop function (two stops or more) with strictly
\* ascending zooms and a base above 0, minValue() and maxValue() are the
\* smallest and the largest stop value, and valueForZoom(z) lies between them
\* for every z; for a constant property minVal(), maxVal() and valForZoom(z)
\* are the constant.
C28_Extrema ==
    ret.op \in {"minVal", "maxVal"} =>
      LET prop == ret.prop
          lo == minVal(prop)
          hi == maxVal(prop)
      IN  /\ ret.val = IF ret.op = "minVal" THEN lo ELSE hi
          /\ prop.ref = "value" =>
               /\ lo = prop.val /\ hi = prop.val
               /\ \A z \in QueryZooms : MapboxTransDouble_valForZoom(prop, z) = prop.val
          /\ (/\ prop.ref = "stops"
              /\ Len(prop.stops.stops) >= 2
              /\ StrictlyAscending(prop.stops)) =>
               /\ lo[2] = 1 /\ lo[1] \in StopVals(prop.stops)
               /\ \A v \in StopVals(prop.stops) : lo[1] <= v
               /\ hi[2] = 1 /\ hi[1] \in StopVals(prop.stops)
               /\ \A v \in StopVals(prop.stops) : v <= hi[1]
               /\ \A z \in QueryZooms :
                    /\ RatLeq(lo, MapboxTransDouble_valForZoom(prop, z))
                    /\ RatLeq(MapboxTransDouble_valForZoom(prop, z), hi)

\* minVal of an exponential stop function whose values go down and up again
C28_Witness ==
    /\ ret.op = "minVal"
    /\ ret.prop.ref = "stops"
    /\ fstops.base = 2
    /\ Len(fstops.stops) = 3
    /\ StrictlyAscending(fstops)
    /\ fstops.stops[1].val = 100
    /\ fstops.stops[2].val = 0
    /\ fstops.stops[3].val = 30
    /\ ret.val = RatInt(0)


-----------------------------------------------------------------------------
(* layerShouldDisplay as a test ahead of stylesForFeature *)

\* C29: for every source-layer name S and tile, when layerShouldDisplay(S,
\* tile) is false every layer that stylesForFeature(attrs, tile, S) returns,
\* for any attrs, is invisible and has an empty representation; and when
\* stylesForFeature returns a visible layer for S, layerShouldDisplay(S, tile)
\* is true.
C29_SoundPreCheck ==
    parsed =>
      \A S \in SourceLayers \cup {"missing"}, tileID \in TileIDs, attrs \in Attrs :
        LET shows  == layerShouldDisplay(layersBySource, S, tileID).val
            styles == stylesForFeature(layersBySource, attrs, tileID, S).val
        IN  /\ ~shows => \A i \in 1..Len(styles) :
                            ~styles[i].visible /\ styles[i].representation = ""
            /\ (\E i \in 1..Len(styles) : styles[i].visible) => shows

\* layerShouldDisplay returned false for a source layer of two layers, and
\* stylesForFeature returns a layer for it
C29_Witness ==
    /\ parsed
    /\ ret.op = "layerShouldDisplay"
    /\ ret.val = FALSE
    /\ Len(equal_range(layersBySource, "water")) = 2
    /\ \A S \in SourceLayers \ {"water"} : Len(equal_range(layersBySource, S)) = 0
    /\ ~layerShouldDisplay(layersBySource, "water", 0).val
    /\ \E attrs \in Attrs :
          Len(stylesForFeature(layersBySource, attrs, 0, "water").val) > 0


-----------------------------------------------------------------------------
(* The '#' strings parseColor takes for colors *)

\* C30 as stated: a string that begins with '#' gives a color only when its
\* length is 4, 5, 7 or 9 and every character after the '#' is a hex digit;
\* every other '#' string, one with a sign or a letter that is no hex digit
\* after the '#' included, gives the caller's default.
C30_AsStated ==
    (/\ colorRet # IdleColor.ret
     /\ Len(colorArgs.str) > 0
     /\ colorArgs.str[1] = "#")
        => IF \E n \in {3, 4, 6, 8} : IsHexForm(colorArgs.str, n)
           THEN colorRet.ref = "new"
           ELSE colorRet = colorArgs.defVal

\* the same without the strings that carry a sign
C30_Unsigned ==
    (/\ colorRet # IdleColor.ret
     /\ Len(colorArgs.str) > 0
     /\ colorArgs.str[1] = "#"
     /\ \A i \in 1..Len(colorArgs.str) : colorArgs.str[i] # "+")
        => IF \E n \in {3, 4, 6, 8} : IsHexForm(colorArgs.str, n)
           THEN colorRet.ref = "new"
           ELSE colorRet = colorArgs.defVal

\* "#+1f" parsed: the color of "#01f"
C30_SignedHex ==
    /\ colorArgs.str = <<"#", "+", "1", "f">>
    /\ ~colorArgs.multiplyAlpha
    /\ colorRet = NewColor(0, 17, 255, 255)

=============================================================================
